---- MODULE Spec2Model ----
(***************************************************************************)
(* A model of ChatService.sendMessage (src/src/services/ChatService.ts):   *)
(* the streaming response orchestrator of the chat client.  One chain is a *)
(* top-level sendMessage call and the recursive continuations it awaits.    *)
(*                                                                         *)
(* Text is a sequence of tokens.  A token is an indivisible piece of text: *)
(*   "a", "b"   one plain character each                                    *)
(*   "L"        a run of 50 plain characters, none of them "a" or "b" and   *)
(*              no two of them alike                                        *)
(*   " "        one space                                                   *)
(*   "."        one full stop                                               *)
(*   "T"        the inline marker                                           *)
(*              {"name":"web_search","arguments":{"query":"x"}}             *)
(*   "Q"        the inline marker                                           *)
(*              {"name":"web_search","arguments":{"query":5}}               *)
(*   "U"        the inline marker {"name":"tool_x","arguments":{}}          *)
(*   "E"        the inline call                                             *)
(*              {"name":"web_search","arguments":{"query":""}}              *)
(*   "N"        the inline call {"name":"web_search","arguments":{}}        *)
(*   "B"        the inline call                                             *)
(*              {"name":"web_search","arguments":{"query":"a}b"}}           *)
(*   "C"        the inline call                                             *)
(*              {"name":"create_table","arguments":{"columns":[],"rows":[]}} *)
(*   "<t>"      the tag <think>,   "</t>"  the tag </think>                 *)
(*   "<c>"      the tag <tool_call>,  "</c>"  the tag </tool_call>          *)
(*   "~"        what is left of a token that a removal cut through         *)
(* Tokens begin with different characters and no proper prefix of a token  *)
(* ends a text, so startsWith and endsWith on the text are prefix and       *)
(* suffix tests on the token sequence.                                      *)
(***************************************************************************)
EXTENDS Integers, Sequences, FiniteSets, TLC

\* ------------------------------------------------------------------ bounds
MaxRounds == 3          \* sendMessage invocations per chain under Spec
MaxReads == 3           \* lines the server delivers over the whole chain
MaxCancels == 1         \* calls of cancelRequest per chain
MaxDeepRounds == 22     \* sendMessage invocations per chain under SpecDeep
MaxFeeds == 3           \* fragments given to the reconciler under SpecReconciler
MaxPad == 2             \* tokens before, inside and after a tag pair or a call under SpecText
MaxOver == 2            \* calls a batch may hold beyond the ceiling under SpecCeiling
MaxLines == 3           \* lines of a stream under SpecChunks

\* ------------------------------------------------------- program constants
MAX_TOOL_CALLS == 20    \* ChatService.ts:618
FORCE_THRESHOLD == 50   \* ChatService.ts:1115
OVERLAP_WINDOW == 10    \* ChatService.ts:1096
PREFIX_WINDOW == 50     \* ChatService.ts:566

\* message ids: the history's turns, the user turn, the assistant turn of the
\* chain, and the empty user turn of a continuation
HISTORY_USER_ID == 1
HISTORY_ASSISTANT_ID == 2
USER_ID == 3
ASSISTANT_ID == 4
CONTINUATION_ID == 5

\* the notices the orchestrator writes into the content
NOTICE_CANCELLED == "[cancelled]"
NOTICE_LIMIT == "[limit]"
NOTICE_ERROR == "[error]"

\* --------------------------------------------------------------- the text
Width(t) ==
  CASE t = "L"    -> 50
    [] t = "T"    -> 47
    [] t = "Q"    -> 45
    [] t = "U"    -> 32
    [] t = "E"    -> 46
    [] t = "N"    -> 36
    [] t = "B"    -> 49
    [] t = "C"    -> 60
    [] t = "<t>"  -> 7
    [] t = "</t>" -> 8
    [] t = "<c>"  -> 11
    [] t = "</c>" -> 12
    [] OTHER      -> 1

RECURSIVE CharLen(_)
CharLen(s) == IF s = <<>> THEN 0 ELSE Width(Head(s)) + CharLen(Tail(s))

IsSpace(t) == t = " "
IsInlineCall(t) == t \in {"T", "Q", "U", "E", "N", "B", "C"}
IsTag(t) == t \in {"<t>", "</t>"}
IsPunct(t) == t \in {".", " "}

StartsWith(s, p) == Len(p) <= Len(s) /\ SubSeq(s, 1, Len(p)) = p
EndsWith(s, p) == Len(p) <= Len(s) /\ SubSeq(s, Len(s) - Len(p) + 1, Len(s)) = p

RECURSIVE TrimEnd(_)
\* String.prototype.trimEnd, and replace(/\s+$/, '')
TrimEnd(s) ==
  IF s # <<>> /\ IsSpace(s[Len(s)]) THEN TrimEnd(SubSeq(s, 1, Len(s) - 1)) ELSE s

RECURSIVE TrimStart(_)
TrimStart(s) == IF s # <<>> /\ IsSpace(Head(s)) THEN TrimStart(Tail(s)) ELSE s

Trim(s) == TrimEnd(TrimStart(s))

RECURSIVE Filter(_, _)
\* the tokens of s at the positions not in drop, in order
Filter(s, drop) ==
  IF s = <<>> THEN <<>>
  ELSE LET rest == Filter(SubSeq(s, 1, Len(s) - 1), drop)
       IN IF Len(s) \in drop THEN rest ELSE Append(rest, s[Len(s)])

\* the element of a set of one: Only({e : x \in {v}}) is e with x the
\* value of v
Only(S) == CHOOSE y \in S : TRUE

\* ------------------------------------------------- cleanTrailingPunctuation
RECURSIVE StripPunct(_)
StripPunct(s) ==
  IF s # <<>> /\ IsPunct(s[Len(s)]) THEN StripPunct(SubSeq(s, 1, Len(s) - 1)) ELSE s

CleanTrailingPunctuation(text) ==
  LET t == Trim(text)
  IN IF t # <<>> /\ IsTag(t[Len(t)]) THEN t ELSE Trim(StripPunct(text))

\* --------------------------------------------------------- extractThinking
\* The positions of the closed <think>...</think> pairs of the text: the
\* non-greedy pattern pairs each open tag with the next close tag after it.
RECURSIVE ThinkSpans(_, _, _)
ThinkSpans(s, i, open) ==
  IF i > Len(s) THEN {}
  ELSE IF open = 0
       THEN ThinkSpans(s, i + 1, IF s[i] = "<t>" THEN i ELSE 0)
       ELSE IF s[i] = "</t>"
            THEN {<<open, i>>} \cup ThinkSpans(s, i + 1, 0)
            ELSE ThinkSpans(s, i + 1, open)

InSpans(spans, i) == \E sp \in spans : sp[1] <= i /\ i <= sp[2]

\* the bodies of the pairs, in order (joined; the blank-line separator is
\* not a token of the model)
ThinkBody(s, spans) ==
  Filter(s, {i \in 1..Len(s) : ~ \E sp \in spans : sp[1] < i /\ i < sp[2]})

\* an extraction that trims the visible text at both ends
ExtractThinkingTrimsBoth(text) ==
  LET spans == ThinkSpans(text, 1, 0)
  IN IF spans = {}
     THEN [cleanText |-> text, thinking |-> <<>>]
     ELSE [cleanText |-> Trim(Filter(text, {i \in 1..Len(text) : InSpans(spans, i)})),
           thinking  |-> ThinkBody(text, spans)]

ExtractThinking(text) ==
  LET spans == ThinkSpans(text, 1, 0)
  IN IF spans = {}
     THEN [cleanText |-> text, thinking |-> <<>>]
     ELSE [cleanText |-> TrimEnd(Filter(text, {i \in 1..Len(text) : InSpans(spans, i)})),
           thinking  |-> ThinkBody(text, spans)]

CheckThinkingStart(chunk) == \E i \in 1..Len(chunk) : chunk[i] = "<t>"
CheckThinkingEnd(chunk) == \E i \in 1..Len(chunk) : chunk[i] = "</t>"

\* ------------------------------------------------ the content reconciler
\* messageContent.substring(0, Math.min(messageContent.length, 10)): the
\* tokens that lie wholly in the window, and whether the window cuts one
RECURSIVE TakeChars(_, _)
TakeChars(s, n) ==
  IF s = <<>> \/ n <= 0 THEN [toks |-> <<>>, cut |-> FALSE]
  ELSE IF Width(Head(s)) <= n
       THEN LET r == TakeChars(Tail(s), n - Width(Head(s)))
            IN [toks |-> <<Head(s)>> \o r.toks, cut |-> r.cut]
       ELSE [toks |-> <<>>, cut |-> TRUE]

Overlap(currentContent, messageContent) ==
  LET w == TakeChars(messageContent, OVERLAP_WINDOW)
  IN ~w.cut /\ EndsWith(currentContent, w.toks)

Longer(currentContent, messageContent) ==
  IF CharLen(currentContent) > CharLen(messageContent)
  THEN currentContent ELSE messageContent

\* a reconciler that keeps what it has once it has something
ReconcileKeepsFirst(currentContent, messageContent) ==
  IF currentContent # <<>> THEN currentContent ELSE messageContent

\* a reconciler that appends every fragment
ReconcileAppends(currentContent, messageContent) == currentContent \o messageContent

\* a reconciler that takes every fragment as the whole text
ReconcileTakesLatest(currentContent, messageContent) == messageContent

Reconcile(currentContent, messageContent) ==
  IF currentContent # <<>> /\ CharLen(messageContent) >= CharLen(currentContent)
     /\ StartsWith(messageContent, currentContent)
  THEN messageContent
  ELSE IF currentContent # <<>> /\ CharLen(messageContent) < CharLen(currentContent)
       THEN IF ~Overlap(currentContent, messageContent)
            THEN currentContent \o messageContent
            ELSE Longer(currentContent, messageContent)
       ELSE Longer(currentContent, messageContent)

\* ------------------------------------------------------------ tool calls
\* A tool call: id, function.name, function.arguments.  The arguments are
\* a string: "query:x", "query:5" and "{}" are JSON objects, "not json"
\* is a string JSON.parse rejects.
\* "query:" is the object with the empty string for its query, and "query:a}b"
\* the object whose query is the string a}b.
MarkerName(t) ==
  CASE t = "U" -> "tool_x"
    [] t = "C" -> "create_table"
    [] OTHER   -> "web_search"
MarkerArgs(t) ==
  CASE t = "T" -> "query:x"
    [] t = "Q" -> "query:5"
    [] t = "E" -> "query:"
    [] t = "B" -> "query:a}b"
    [] t = "C" -> "columns:[],rows:[]"
    [] OTHER   -> "{}"

JsonParses(arguments) == arguments # "not json"

\* the braces of the text of the arguments, in order
ArgumentBraces(arguments) ==
  IF arguments = "query:a}b" THEN <<"{", "}", "}">> ELSE <<"{", "}">>

\* the part of toolCallPattern for the arguments (321, 468):
\* \{[^{}]*(?:\{[^{}]*\}[^{}]*)*\} takes an opening brace, pairs of braces
\* with no brace inside them, and a closing brace
ArgumentsPattern(braces) ==
  /\ Len(braces) >= 2 /\ Len(braces) % 2 = 0
  /\ braces[1] = "{" /\ braces[Len(braces)] = "}"
  /\ \A i \in 2..(Len(braces) - 1) : braces[i] = (IF i % 2 = 0 THEN "{" ELSE "}")

\* the pattern matches the text of the token
MatchesToolCallPattern(t) ==
  IsInlineCall(t) /\ ArgumentsPattern(ArgumentBraces(MarkerArgs(t)))

\* the validation of a match in parseToolCalls (333-416): web_search needs
\* a truthy query, a name outside the list of known tools needs an object,
\* and create_table has no branch and is shut out of the last one
ValidArguments(name, arguments) ==
  CASE name = "web_search"   -> arguments \in {"query:x", "query:5", "query:a}b"}
    [] name = "create_table" -> FALSE
    [] OTHER                 -> TRUE

\* the validation of a match in removeToolCalls (476-496): as above, but
\* create_table is accepted with an array of columns and an array of rows
ValidForRemoval(name, arguments) ==
  CASE name = "web_search"   -> arguments \in {"query:x", "query:5", "query:a}b"}
    [] name = "create_table" -> arguments = "columns:[],rows:[]"
    [] OTHER                 -> TRUE

\* the spans parseToolCalls accepts
IsMarker(t) == MatchesToolCallPattern(t) /\ ValidArguments(MarkerName(t), MarkerArgs(t))

\* --------------------------------------- the tagged form <tool_call>...
IsOpenCall(t) == t = "<c>"
IsCloseCall(t) == t = "</c>"

\* the character offset at which the token at position i begins
RECURSIVE Offset(_, _)
Offset(s, i) == IF i <= 1 THEN 0 ELSE Offset(s, i - 1) + Width(s[i - 1])

\* ollamaToolPattern (428, 504) tried at the open tag at position i: blanks,
\* a body that begins with a brace and is the shortest that ends with a
\* brace followed by blanks and the close tag. The close tag taken, or 0.
CloseOf(content, i) ==
  Only({
    IF first > Len(content) \/ ~IsInlineCall(content[first]) THEN 0
    ELSE Only({IF ends = {} THEN 0 ELSE CHOOSE j \in ends : \A h \in ends : j <= h
               : ends \in {{j \in (first + 1)..Len(content) :
                              /\ IsCloseCall(content[j])
                              /\ \E e \in first..(j - 1) :
                                    /\ IsInlineCall(content[e])
                                    /\ \A h \in (e + 1)..(j - 1) : IsSpace(content[h])}}})
    : first \in {CHOOSE k \in (i + 1)..(Len(content) + 1) :
                   /\ k = Len(content) + 1 \/ ~IsSpace(content[k])
                   /\ \A h \in (i + 1)..(k - 1) : IsSpace(content[h])}})

RECURSIVE TaggedFrom(_, _)
\* the matches of ollamaToolPattern from position i on, in order: the open
\* tag, the close tag and the body between them without its blanks
TaggedFrom(content, i) ==
  IF i > Len(content) THEN <<>>
  ELSE IF ~IsOpenCall(content[i]) THEN TaggedFrom(content, i + 1)
  ELSE Only({
         IF close = 0 THEN TaggedFrom(content, i + 1)
         ELSE <<[open |-> i, close |-> close,
                 body |-> Trim(SubSeq(content, i + 1, close - 1))]>>
              \o TaggedFrom(content, close + 1)
         : close \in {CloseOf(content, i)}})

\* JSON.parse(match[1]) gives an object with a truthy name and truthy
\* arguments (431-432, 507-508): the body is one object, and every object of
\* the model has both
TaggedValid(m) == Len(m.body) = 1 /\ IsInlineCall(m.body[1])

RECURSIVE ParseTagged(_)
ParseTagged(ms) ==
  IF ms = <<>> THEN <<>>
  ELSE IF TaggedValid(Head(ms))
       THEN <<[name |-> MarkerName(Head(ms).body[1]),
               arguments |-> MarkerArgs(Head(ms).body[1])]>> \o ParseTagged(Tail(ms))
       ELSE ParseTagged(Tail(ms))

RECURSIVE ParseFrom(_, _)
ParseFrom(content, i) ==
  IF i > Len(content) THEN <<>>
  ELSE IF IsMarker(content[i])
       THEN <<[name |-> MarkerName(content[i]), arguments |-> MarkerArgs(content[i])]>>
            \o ParseFrom(content, i + 1)
       ELSE ParseFrom(content, i + 1)

\* parseToolCalls, the ids left to the caller (WithIds): the inline calls,
\* then the tagged ones (324-425, 428-447)
ParseToolCalls(content) ==
  ParseFrom(content, 1) \o ParseTagged(TaggedFrom(content, 1))

WithIds(calls, firstId) ==
  [i \in 1..Len(calls) |->
     [id |-> firstId + i - 1, name |-> calls[i].name, arguments |-> calls[i].arguments]]

\* the check of hasValidToolCalls on one parsed call
IsValidToolCall(tc) ==
  /\ JsonParses(tc.arguments)
  /\ tc.name = "web_search" => tc.arguments = "query:x"

HasValidToolCalls(parsed) == \E i \in 1..Len(parsed) : IsValidToolCall(parsed[i])

\* --------------------------------------------------------- removeToolCalls
RECURSIVE CollapseSpaces(_)
\* replace(/\s{2,}/g, ' ')
CollapseSpaces(s) ==
  IF Len(s) < 2 THEN s
  ELSE IF IsSpace(s[1]) /\ IsSpace(s[2]) THEN CollapseSpaces(Tail(s))
       ELSE <<Head(s)>> \o CollapseSpaces(Tail(s))

RECURSIVE SamePrefix(_, _, _)
\* the first n characters of c and of o are the same
SamePrefix(c, o, n) ==
  IF n <= 0 \/ c = <<>> \/ o = <<>> THEN TRUE
  ELSE Head(c) = Head(o) /\ SamePrefix(Tail(c), Tail(o), n - Width(Head(c)))

Min2(x, y) == IF x < y THEN x ELSE y

\* toolCallMatches (465-515): the spans of the inline matches, then those of
\* the tagged matches, in characters
RECURSIVE InlineMatches(_, _)
InlineMatches(content, i) ==
  IF i > Len(content) THEN <<>>
  ELSE IF /\ MatchesToolCallPattern(content[i])
          /\ ValidForRemoval(MarkerName(content[i]), MarkerArgs(content[i]))
       THEN <<[start |-> Offset(content, i), end |-> Offset(content, i + 1)]>>
            \o InlineMatches(content, i + 1)
       ELSE InlineMatches(content, i + 1)

RECURSIVE TaggedMatches(_, _)
TaggedMatches(content, ms) ==
  IF ms = <<>> THEN <<>>
  ELSE IF TaggedValid(Head(ms))
       THEN <<[start |-> Offset(content, Head(ms).open),
               end |-> Offset(content, Head(ms).close + 1)]>>
            \o TaggedMatches(content, Tail(ms))
       ELSE TaggedMatches(content, Tail(ms))

ToolCallMatches(content) ==
  InlineMatches(content, 1) \o TaggedMatches(content, TaggedFrom(content, 1))

RECURSIVE SortDescending(_)
\* toolCallMatches.sort((a, b) => b.start - a.start); no two spans begin at
\* the same character
SortDescending(ms) ==
  IF ms = <<>> THEN <<>>
  ELSE LET top == CHOOSE i \in 1..Len(ms) : \A j \in 1..Len(ms) : ms[j].start <= ms[i].start
       IN <<ms[top]>> \o SortDescending(Filter(ms, {top}))

RECURSIVE Substring(_, _)
\* s.substring(n): the tokens from character n on. A token that n cuts
\* leaves "~", what is left of it.
Substring(s, n) ==
  IF s = <<>> \/ n <= 0 THEN s
  ELSE IF Width(Head(s)) <= n THEN Substring(Tail(s), n - Width(Head(s)))
       ELSE <<"~">> \o Tail(s)

\* s.substring(0, n), n at the beginning of a token
SubstringTo(s, n) == SubSeq(s, 1, Len(s) - Len(Substring(s, n)))

RECURSIVE RemoveSpans(_, _)
\* the precise pass (526-551): the spans are removed from the last to the
\* first, each at the offsets it had in the original text, and one space is
\* put where a removal leaves content against content
RemoveSpans(cleaned, ms) ==
  IF ms = <<>> THEN cleaned
  ELSE Only({
         RemoveSpans(
           cut.before
           \o (IF /\ TrimEnd(cut.before) # <<>> /\ TrimStart(cut.after) # <<>>
                   /\ ~IsSpace(cut.before[Len(cut.before)]) /\ ~IsSpace(cut.after[1])
                THEN <<" ">> ELSE <<>>)
           \o cut.after,
           Tail(ms))
         : cut \in {[before |-> SubstringTo(cleaned, Head(ms).start),
                     after |-> Substring(cleaned, Head(ms).end)]}})

RECURSIVE RemoveStandalone(_, _)
\* the conservative pass (573-581): a span is removed only between
\* whitespace or the ends of the text
RemoveStandalone(cleaned, ms) ==
  IF ms = <<>> THEN cleaned
  ELSE Only({
         RemoveStandalone(
           IF /\ cut.before = <<>> \/ IsSpace(cut.before[Len(cut.before)])
              /\ cut.after = <<>> \/ IsSpace(cut.after[1])
           THEN cut.before \o cut.after ELSE cut.whole,
           Tail(ms))
         : cut \in {[before |-> SubstringTo(cleaned, Head(ms).start),
                     after |-> Substring(cleaned, Head(ms).end),
                     whole |-> cleaned]}})

RemoveToolCalls(content) ==
  Only({
    IF ms = <<>> THEN content
    ELSE Only({
      Only({
        IF Len(content) > Len(TrimStart(content)) /\ TrimStart(cleaned) = TrimStart(content)
        THEN [i \in 1..(Len(content) - Len(TrimStart(content))) |-> " "]
             \o TrimStart(cleaned)
        ELSE cleaned
        : cleaned \in {
            IF /\ TrimStart(precise) # <<>> /\ TrimStart(content) # <<>>
               /\ ~SamePrefix(TrimStart(precise), TrimStart(content),
                              Min2(Min2(PREFIX_WINDOW, CharLen(TrimStart(precise))),
                                   Min2(PREFIX_WINDOW, CharLen(TrimStart(content)))))
            THEN RemoveStandalone(content, ms) ELSE precise}})
      : precise \in {TrimEnd(CollapseSpaces(RemoveSpans(content, ms)))}})
    : ms \in {SortDescending(ToolCallMatches(content))}})

\* the visible text of the final updates: extractThinking, removeToolCalls,
\* cleanTrailingPunctuation
FinalContent(content) ==
  CleanTrailingPunctuation(RemoveToolCalls(ExtractThinking(content).cleanText))

\* ---------------------------------------------------------------- state
VARIABLES
  config,           \* this.config.webSearchEnabled, and whether this.toolExecutor is set
  stack,            \* the sendMessage invocations of the chain, the running one last
  abortController,  \* this.abortController: 0 (null) or the invocation that made it
  outcome,          \* the promise of the top-level call: idle, pending, resolved, rejected
  emitted,          \* the updates the last step gave to onUpdate, in order
  doneCount,        \* updates with isDone = true given to onUpdate so far
  execCount,        \* invocations of the tool executor so far
  fetchCount,       \* inference requests issued so far
  rounds,           \* sendMessage invocations so far
  inFlight,         \* ids of the tool calls whose execution has not completed
  history,          \* what the chain went through (see NoHistory)
  fed,              \* the reconciler alone: the fragments given to it, each with
                    \* the accumulated text it left
  subject,          \* the text functions alone: the text they are given
  returned,         \* the text functions alone: what the last call returned
  other,            \* a second chain on the same ChatService (see NoChain)
  reader            \* the read loop by chunks alone (see NewReader)

vars == <<config, stack, abortController, outcome, emitted, doneCount, execCount,
          fetchCount, rounds, inFlight, history, fed, subject, returned, other, reader>>

\* what the chain went through, for the statements about it
NoHistory ==
  [fetchFailed |-> FALSE,        \* an inference request failed
   streamFailed |-> FALSE,       \* a read failed with an error other than an abort
   cancels |-> 0,                \* calls of cancelRequest that found a controller
   cancelDuringTool |-> FALSE,   \* cancelRequest aborted a signal while a tool ran
   cancelWhere |-> "none",       \* where the abort was found: "loop", "read", "fetch"
   cancelText |-> <<>>,          \* the text accumulated when it was found
   traced |-> FALSE,             \* the lines read are written down (the two below)
   lastRead |-> <<>>,            \* the line the last step read in the loop, if any
   contText |-> <<>>]            \* the contents the continuations have read, in order

\* a second sendMessage chain overlapping the first: its invocations, the
\* promise of its top-level call, the updates its last step gave to its own
\* onUpdate, where it found an abort, and whether cancelRequest was called
\* while it was awaiting a stream read
NoChain ==
  [stack |-> <<>>, outcome |-> "idle", ups |-> <<>>, cancelWhere |-> "none",
   asked |-> FALSE]

\* ------------------------------------------------------------- messages
Message(id, role, content) ==
  [id |-> id, role |-> role, content |-> content, thinking |-> <<>>,
   toolCalls |-> <<>>, toolResults |-> <<>>, isStreaming |-> FALSE, isThinking |-> FALSE]

Update(message, isDone) == [message |-> message, isDone |-> isDone]

RECURSIVE CountDone(_)
CountDone(ups) ==
  IF ups = <<>> THEN 0
  ELSE (IF Head(ups).isDone THEN 1 ELSE 0) + CountDone(Tail(ups))

\* Array.prototype.filter, the test given as the set of positions it keeps
Keep(s, keep) == Filter(s, (1..Len(s)) \ keep)

\* a filter that lets every message through
EveryMessage(messages) == messages

NonToolMessages(messages) ==
  Keep(messages, {i \in 1..Len(messages) : messages[i].role # "tool"})

\* messages.find(m => m.id === existingAssistantMessageId): the first one
FindExisting(messages, existingAssistantMessageId) ==
  LET hits == {i \in 1..Len(messages) : messages[i].id = existingAssistantMessageId}
  IN IF hits = {} THEN 0 ELSE CHOOSE i \in hits : \A j \in hits : i <= j

CallId(serial, position) == 100 * serial + position
ToolMessageId(toolCallId) == 10000 + toolCallId

\* ------------------------------------------- entering sendMessage (603-641)
\* existingAssistantMessageId is 0 when the argument is not given
InitialTotal(messages, existingAssistantMessageId) ==
  LET i == FindExisting(messages, existingAssistantMessageId)
  IN IF existingAssistantMessageId # 0 /\ i # 0 THEN Len(messages[i].toolResults) ELSE 0

ExistingContent(messages, existingAssistantMessageId) ==
  LET i == FindExisting(messages, existingAssistantMessageId)
  IN IF existingAssistantMessageId # 0 /\ i # 0 THEN messages[i].content ELSE <<>>

\* (Date.now() + 1).toString() (631): the clock gives each invocation an id
\* that no other message has; the first one of a chain gets ASSISTANT_ID
FreshId(serial) == ASSISTANT_ID + CONTINUATION_ID * (serial - 1)

\* existingAssistantMessageId || fresh (631)
AssistantMessageId(existingAssistantMessageId, serial) ==
  IF existingAssistantMessageId # 0 THEN existingAssistantMessageId ELSE FreshId(serial)

\* a continuation entered without the id of the assistant turn
NoExistingId(f) == 0

\* the fourth argument of the continuation call (1398, 1746)
ExistingId(f) == f.assistantMessage.id

\* the locals of one invocation, at its first await (the request, 977)
NewFrame(serial, messages, userContent, existingAssistantMessageId) ==
  [serial |-> serial,
   pc |-> "awaitFetch",
   messages |-> messages,
   userContent |-> userContent,
   continuation |-> existingAssistantMessageId # 0,
   accumulatedContent |-> ExistingContent(messages, existingAssistantMessageId),
   accumulatedThinking |-> <<>>,
   hasReceivedToolCall |-> FALSE,
   nativeSeen |-> FALSE,  \* a record of this stream carried message.tool_calls
   forcedToolCall |-> FALSE,
   totalToolCallsExecuted |-> InitialTotal(messages, existingAssistantMessageId),
   assistantMessage |->
     [Message(AssistantMessageId(existingAssistantMessageId, serial), "assistant",
              ExistingContent(messages, existingAssistantMessageId))
        EXCEPT !.isStreaming = TRUE],
   readerCancelled |-> FALSE,
   aborted |-> FALSE,
   reads |-> 0,
   path |-> "none",       \* where the tools run: "done" (1303) or "final" (1653)
   index |-> 0,           \* the position of the tool call being executed
   toolResults |-> <<>>,  \* the local toolResults of the execution loop
   ran |-> <<>>]          \* the ids of the calls the loop has entered its try for

\* ------------------------------------------------ forceWebSearch (644-666)
\* a forceWebSearch that does not look at the query
ForceWebSearchAnyQuery(f) ==
  IF f.forcedToolCall \/ ~config.webSearchEnabled \/ ~config.toolExecutor THEN f
  ELSE [f EXCEPT
          !.assistantMessage.toolCalls =
             <<[id |-> CallId(f.serial, 0), name |-> "web_search", arguments |-> "query:x"]>>,
          !.forcedToolCall = TRUE,
          !.hasReceivedToolCall = TRUE]

ForceWebSearch(f) ==
  IF f.forcedToolCall \/ ~config.webSearchEnabled \/ ~config.toolExecutor THEN f
  ELSE IF Trim(f.userContent) = <<>> THEN f
  ELSE [f EXCEPT
          !.assistantMessage.toolCalls =
             <<[id |-> CallId(f.serial, 0), name |-> "web_search", arguments |-> "query:x"]>>,
          !.forcedToolCall = TRUE,
          !.hasReceivedToolCall = TRUE]

\* ------------------------------------------------------ the final updates
Or(x, y) == IF x # <<>> THEN x ELSE y     \* x || y on strings and lists

\* a cancelled turn that keeps the raw accumulated text
CancelledMessageRaw(f) ==
  [f.assistantMessage EXCEPT
     !.content = Or(f.accumulatedContent, f.assistantMessage.content) \o <<NOTICE_CANCELLED>>,
     !.isStreaming = FALSE,
     !.isThinking = FALSE]

\* (1011-1043, 1540-1572, 1805-1861)
CancelledMessage(f) ==
  LET currentContent == Or(f.accumulatedContent, f.assistantMessage.content)
      finalExtraction == ExtractThinking(currentContent)
      finalThinking == Or(finalExtraction.thinking, f.accumulatedThinking)
  IN [f.assistantMessage EXCEPT
        !.content = FinalContent(currentContent) \o <<NOTICE_CANCELLED>>,
        !.thinking = Trim(finalThinking),
        !.isStreaming = FALSE,
        !.isThinking = FALSE]

\* (1866-1872)
ErrorMessage(f) ==
  [f.assistantMessage EXCEPT !.content = <<NOTICE_ERROR>>, !.isStreaming = FALSE]

\* a limit notice that leaves the tool calls on the message
LimitMessageKeepsCalls(f) ==
  [f.assistantMessage EXCEPT
     !.content = <<NOTICE_LIMIT>>, !.isStreaming = FALSE, !.isThinking = FALSE]

\* (1306-1309, 1656-1659)
LimitMessage(f) ==
  [f.assistantMessage EXCEPT
     !.content = <<NOTICE_LIMIT>>, !.isStreaming = FALSE, !.isThinking = FALSE,
     !.toolCalls = <<>>]

\* (1513-1516, 1763-1766)
FinalMessage(f, finalContent, finalThinking) ==
  [f.assistantMessage EXCEPT
     !.content = finalContent, !.thinking = Trim(finalThinking),
     !.isStreaming = FALSE, !.isThinking = FALSE]

\* ------------------------------------- one record of the stream (1059-1533)
\* A record: ok (the line is JSON), content (message.content), thinking
\* (message.thinking), toolCalls (message.tool_calls) and done.
\* A step of the record: the locals after it, the updates it gave, and how
\* it leaves: "go" (on to the next part), "break", "return", or "exec" (the
\* tools are to be run).
StepResult(f, ups, next) == [f |-> f, ups |-> ups, next |-> next]

NewIds(f, calls) == WithIds(calls, CallId(f.serial, Len(f.assistantMessage.toolCalls) + 1))

\* (1124-1219)
ExtractStep(f) ==
  LET acc == f.accumulatedContent
      msg == f.assistantMessage
      extraction == ExtractThinking(acc)
      parsedToolCallsFromAccumulated == NewIds(f, ParseToolCalls(acc))
      allToolCalls == msg.toolCalls \o parsedToolCallsFromAccumulated
      hasValidToolCalls == HasValidToolCalls(parsedToolCallsFromAccumulated)
      contentWithoutToolCalls == RemoveToolCalls(extraction.cleanText)
      accumulatedThinking == Or(extraction.thinking, f.accumulatedThinking)
      currentlyInThinking == CheckThinkingStart(acc) /\ ~CheckThinkingEnd(acc)
      noResults == msg.toolResults = <<>>
      stop == hasValidToolCalls /\ noResults
      m1 == [msg EXCEPT
               !.content = IF stop THEN <<>> ELSE contentWithoutToolCalls,
               !.thinking = Or(accumulatedThinking,
                               IF currentlyInThinking THEN acc ELSE <<>>),
               !.toolCalls = allToolCalls,
               !.isThinking = currentlyInThinking \/ (allToolCalls # <<>> /\ noResults),
               !.isStreaming = TRUE]
      m2 == [m1 EXCEPT !.isThinking = TRUE, !.content = <<>>]
      f1 == [f EXCEPT !.accumulatedThinking = accumulatedThinking]
  IN IF stop
     THEN StepResult([f1 EXCEPT !.assistantMessage = m2, !.readerCancelled = TRUE],
                     <<Update(m1, FALSE), Update(m2, FALSE)>>, "break")
     ELSE StepResult([f1 EXCEPT !.assistantMessage = m1], <<Update(m1, FALSE)>>, "go")

\* (1075-1122), then ExtractStep
ContentStep(f, r) ==
  LET received == f.hasReceivedToolCall \/ r.toolCalls # <<>>
      acc == Reconcile(f.accumulatedContent, r.content)
      f1 == [f EXCEPT !.hasReceivedToolCall = received]
      f2 == [f1 EXCEPT !.accumulatedContent = acc]
      hasAnyToolCalls == received \/ ParseToolCalls(acc) # <<>>
      force == /\ CharLen(Trim(acc)) > FORCE_THRESHOLD
               /\ ~hasAnyToolCalls /\ ~f.forcedToolCall
               /\ config.webSearchEnabled /\ config.toolExecutor
      forced == ForceWebSearch(f2)
  IN IF r.content = <<>> THEN StepResult(f1, <<>>, "go")
     ELSE IF force /\ forced.forcedToolCall
          THEN StepResult([forced EXCEPT !.readerCancelled = TRUE], <<>>, "break")
          ELSE ExtractStep(f2)

\* (1222-1249)
NativeStep(f, r) ==
  LET msg == f.assistantMessage
      m1 == [msg EXCEPT
               !.toolCalls = @ \o NewIds(f, r.toolCalls),
               !.isThinking = TRUE,
               !.content = <<>>]
  IN IF r.toolCalls = <<>> THEN StepResult(f, <<>>, "go")
     ELSE StepResult([f EXCEPT !.hasReceivedToolCall = TRUE, !.nativeSeen = TRUE,
                               !.assistantMessage = m1,
                               !.readerCancelled = TRUE],
                     <<Update(m1, FALSE)>>, "break")

\* (1251-1256)
ForcedStep(f) ==
  IF /\ f.forcedToolCall /\ f.assistantMessage.toolCalls # <<>>
     /\ f.assistantMessage.toolResults = <<>>
  THEN StepResult([f EXCEPT !.readerCancelled = TRUE], <<>>, "break")
  ELSE StepResult(f, <<>>, "go")

\* (1258-1269)
ThinkingStep(f, r) ==
  LET accumulatedThinking == f.accumulatedThinking \o r.thinking
      m1 == [f.assistantMessage EXCEPT
               !.thinking = accumulatedThinking, !.isThinking = TRUE, !.isStreaming = TRUE]
  IN IF r.thinking = <<>> THEN StepResult(f, <<>>, "go")
     ELSE StepResult([f EXCEPT !.accumulatedThinking = accumulatedThinking,
                               !.assistantMessage = m1],
                     <<Update(m1, FALSE)>>, "go")

\* (1271-1528)
DoneStep(f, r) ==
  LET currentContent == Or(f.accumulatedContent, Or(r.content, f.assistantMessage.content))
      acc == IF r.content # <<>> /\ CharLen(r.content) > CharLen(f.accumulatedContent)
             THEN r.content ELSE f.accumulatedContent
      source == Or(acc, currentContent)
      finalExtraction == ExtractThinking(source)
      finalContent == FinalContent(source)
      finalThinking == Or(finalExtraction.thinking, f.accumulatedThinking)
      finalToolCalls == NewIds(f, ParseToolCalls(source))
      f1 == [f EXCEPT !.accumulatedContent = acc]
      f2 == IF finalToolCalls = <<>> THEN f1
            ELSE [f1 EXCEPT !.assistantMessage.toolCalls = @ \o finalToolCalls,
                            !.hasReceivedToolCall = TRUE]
      f3 == IF /\ ~f2.hasReceivedToolCall /\ ~f2.forcedToolCall
               /\ Trim(finalContent) # <<>>
               /\ config.webSearchEnabled /\ config.toolExecutor
            THEN ForceWebSearch(f2) ELSE f2
      limit == LimitMessage(f3)
      final == FinalMessage(f3, finalContent, finalThinking)
  IN IF ~r.done THEN StepResult(f, <<>>, "go")
     ELSE IF f3.assistantMessage.toolCalls # <<>> /\ config.toolExecutor
          THEN IF f3.totalToolCallsExecuted >= MAX_TOOL_CALLS
               THEN StepResult([f3 EXCEPT !.assistantMessage = limit],
                               <<Update(limit, TRUE)>>, "return")
               ELSE StepResult([f3 EXCEPT !.path = "done", !.index = 1,
                                          !.toolResults = <<>>, !.ran = <<>>],
                               <<>>, "exec")
          ELSE StepResult([f3 EXCEPT !.assistantMessage = final],
                          <<Update(final, TRUE)>>, "go")

\* the parts of the record in order, each run only if the ones before it
\* neither broke out of the loop nor returned
Then(a, b0) ==
  IF a.next # "go" THEN a
  ELSE Only({StepResult(b.f, a.ups \o b.ups, b.next) : b \in {b0}})

\* a catch that throws away the text accumulated so far
SkipLineResetting(f) ==
  StepResult([f EXCEPT !.accumulatedContent = <<>>], <<>>, "go")

\* JSON.parse throws on the line and the catch goes on to the next line
\* (1063, 1529-1532)
SkipLine(f) == StepResult(f, <<>>, "go")

ProcessRecord(f, r) ==
  IF ~r.ok THEN SkipLine(f)
  ELSE Only({
         Only({
           Only({
             Only({ Then(d, DoneStep(d.f, r))
                    : d \in {Then(c, ThinkingStep(c.f, r))} })
             : c \in {Then(b, ForcedStep(b.f))} })
           : b \in {Then(a, NativeStep(a.f, r))} })
         : a \in {ContentStep(f, r)} })

Malformed == [ok |-> FALSE, content |-> <<>>, thinking |-> <<>>, toolCalls |-> <<>>,
              done |-> FALSE]

\* ------------------------------------ after the read loop (1579-1798)
\* tail: what is left in the buffer when the stream ends (a record; a
\* record that is not ok stands for an empty or unparsable buffer)
AfterLoop(f, tail) ==
  LET acc == IF tail.ok /\ tail.content # <<>>
             THEN Reconcile(f.accumulatedContent, tail.content)
             ELSE f.accumulatedContent
      thinking1 == IF tail.ok /\ tail.content # <<>>
                   THEN Or(ExtractThinking(acc).thinking, f.accumulatedThinking)
                   ELSE f.accumulatedThinking
      accumulatedThinking == IF tail.ok THEN thinking1 \o tail.thinking ELSE thinking1
      currentContent == Or(acc, f.assistantMessage.content)
      finalExtraction == ExtractThinking(currentContent)
      finalContent == FinalContent(currentContent)
      finalThinking == Or(finalExtraction.thinking, accumulatedThinking)
      finalToolCalls == NewIds(f, ParseToolCalls(currentContent))
      f1 == [f EXCEPT !.accumulatedContent =
                         IF CharLen(currentContent) > CharLen(acc) THEN currentContent ELSE acc,
                      !.accumulatedThinking = accumulatedThinking,
                      !.assistantMessage.toolCalls = @ \o finalToolCalls]
      limit == LimitMessage(f1)
      final == FinalMessage(f1, finalContent, finalThinking)
  IN IF /\ f1.assistantMessage.toolCalls # <<>> /\ config.toolExecutor
        /\ f1.assistantMessage.toolResults = <<>>
     THEN IF f1.totalToolCallsExecuted >= MAX_TOOL_CALLS
          THEN StepResult([f1 EXCEPT !.assistantMessage = limit],
                          <<Update(limit, TRUE)>>, "return")
          ELSE StepResult([f1 EXCEPT !.path = "final", !.index = 1, !.toolResults = <<>>,
                                     !.ran = <<>>],
                          <<>>, "exec")
     ELSE StepResult([f1 EXCEPT !.assistantMessage = final],
                     <<Update(final, TRUE)>>, "return")

\* ------------------------- the tool execution loop (1318-1347, 1668-1697)
\* the executor of App.tsx answers the tools it knows and throws for the rest
ExecutorRejects(name) == name # "web_search"

ToolResult(toolCall, result) ==
  [toolCallId |-> toolCall.id, name |-> toolCall.name, result |-> result]

\* a loop that passes over every other call
NextIndexSkips(i) == i + 2

NextIndex(i) == i + 1

RECURSIVE RunLoop(_)
\* the loop from f.index up to its next await (the executor, "await") or
\* its end ("after")
RunLoop(f) ==
  LET calls == f.assistantMessage.toolCalls
      toolCall == calls[f.index]
  IN IF f.index > Len(calls) THEN [f |-> f, next |-> "after"]
     ELSE IF f.totalToolCallsExecuted >= MAX_TOOL_CALLS
          THEN [f |-> [f EXCEPT !.toolResults = Append(@, ToolResult(toolCall, "limit"))],
                next |-> "after"]
          ELSE IF ~JsonParses(toolCall.arguments)
               THEN RunLoop([f EXCEPT
                               !.toolResults = Append(@, ToolResult(toolCall, "error")),
                               !.totalToolCallsExecuted = @ + 1,
                               !.ran = Append(@, toolCall.id),
                               !.index = NextIndex(@)])
               ELSE [f |-> [f EXCEPT !.pc = "awaitTool", !.ran = Append(@, toolCall.id)],
                     next |-> "await"]

\* a catch that pushes no result
SettledDropsError(f) ==
  LET toolCall == f.assistantMessage.toolCalls[f.index]
  IN [f EXCEPT
        !.toolResults = IF ExecutorRejects(toolCall.name) THEN @
                        ELSE Append(@, ToolResult(toolCall, "ok")),
        !.totalToolCallsExecuted = @ + 1,
        !.index = NextIndex(@)]

\* a catch that leaves the loop
SettledAbandons(f) ==
  LET toolCall == f.assistantMessage.toolCalls[f.index]
      rejects == ExecutorRejects(toolCall.name)
  IN [f EXCEPT
        !.toolResults = Append(@, ToolResult(toolCall, IF rejects THEN "error" ELSE "ok")),
        !.totalToolCallsExecuted = @ + 1,
        !.index = IF rejects THEN Len(f.assistantMessage.toolCalls) + 1 ELSE NextIndex(@)]

\* the executor's promise settles: the result is pushed and the loop goes on
Settled(f) ==
  LET toolCall == f.assistantMessage.toolCalls[f.index]
  IN [f EXCEPT
        !.toolResults = Append(@, ToolResult(toolCall,
                                  IF ExecutorRejects(toolCall.name) THEN "error" ELSE "ok")),
        !.totalToolCallsExecuted = @ + 1,
        !.index = NextIndex(@)]

\* ------------------------ results and continuation (1349-1398, 1699-1746)
ToolMessage(tr) ==
  [Message(ToolMessageId(tr.toolCallId), "tool", <<tr.result>>) EXCEPT !.toolResults = <<tr>>]

AfterTools(f) ==
  [f.assistantMessage EXCEPT
     !.toolResults = f.toolResults,
     !.isThinking = FALSE,
     !.content = IF f.path = "final" THEN <<>> ELSE @]

ContinuationMessages(f) ==
  LET msg == AfterTools(f)
      userMessage == Message(IF f.continuation THEN CONTINUATION_ID ELSE USER_ID,
                             "user", f.userContent)
  IN NonToolMessages(f.messages)
     \o <<userMessage>>
     \o <<[msg EXCEPT !.thinking = Or(@, f.accumulatedThinking)]>>
     \o [i \in 1..Len(f.toolResults) |-> ToolMessage(f.toolResults[i])]

\* ------------------------------------------------ the chain of invocations
\* What a step of the chain leaves: the invocations, the updates given, the
\* promise of the top-level call, this.abortController, the executor
\* invocations and the requests it made, the calls in flight, and the abort
\* it found.
Top(stk) == stk[Len(stk)]
ReplaceTop(stk, f) == [stk EXCEPT ![Len(stk)] = f]
Pop(stk) == SubSeq(stk, 1, Len(stk) - 1)

Running(ac) ==
  [stack |-> stack, ups |-> <<>>, outcome |-> "pending", ac |-> ac, started |-> {},
   settled |-> {}, pushes |-> 0, cancelWhere |-> "none", cancelText |-> <<>>]

RECURSIVE Finish(_, _)
RECURSIVE LoopTop(_)

\* the invocation on top returns or throws: its finally clears
\* this.abortController (1875-1878) and the invocation awaiting it goes on:
\* it returns (1400, 1748), or takes the error in its outer catch
\* (1799-1874) or in the catch of the record (1529-1532)
Finish(res0, signal) ==
  Only({
    LET rest == Pop(res.stack)
        parent == Top(rest)
        error == ErrorMessage(parent)
    IN IF rest = <<>>
       THEN [res EXCEPT !.stack = <<>>, !.ac = 0,
                        !.outcome = IF signal = "throw" THEN "rejected" ELSE "resolved"]
       ELSE IF signal = "return"
            THEN Finish([res EXCEPT !.stack = rest, !.ac = 0], "return")
            ELSE IF parent.path = "final"
                 THEN Finish([res EXCEPT
                                !.stack = ReplaceTop(rest, [parent EXCEPT !.assistantMessage = error]),
                                !.ups = @ \o <<Update(error, TRUE)>>,
                                !.ac = 0],
                             "throw")
                 ELSE LoopTop([res EXCEPT !.stack = rest, !.ac = 0])
    : res \in {res0}})

\* the top of the read loop: the signal is checked (1008-1046), then the
\* next read is awaited (1048)
LoopTop(res0) ==
  Only({
    LET f == Top(res.stack)
        cancelled == CancelledMessage(f)
    IN IF f.aborted
       THEN Finish([res EXCEPT
                      !.stack = ReplaceTop(res.stack, [f EXCEPT !.assistantMessage = cancelled]),
                      !.ups = @ \o <<Update(cancelled, TRUE)>>,
                      !.cancelWhere = "loop",
                      !.cancelText = Or(f.accumulatedContent, f.assistantMessage.content)],
                   "return")
       ELSE [res EXCEPT !.stack = ReplaceTop(res.stack, [f EXCEPT !.pc = "awaitRead"])]
    : res \in {res0}})

\* the results are set, the update given and the continuation entered: it
\* runs up to its request (973-977), with a new AbortController
Continue(res0) ==
  Only({
    LET f == Top(res.stack)
        msg == AfterTools(f)
        waiting == [f EXCEPT !.assistantMessage = msg, !.pc = "awaitCont"]
    IN [res EXCEPT
          !.stack = Append(ReplaceTop(res.stack, waiting),
                           NewFrame(rounds + 1, ContinuationMessages(f), <<>>, ExistingId(f))),
          !.ups = @ \o <<Update(msg, FALSE)>>,
          !.ac = Len(res.stack) + 1,
          !.pushes = 1]
    : res \in {res0}})

\* the execution loop runs on
Execute(res0) ==
  Only({
    LET r == RunLoop(Top(res.stack))
    IN IF r.next = "await"
       THEN [res EXCEPT !.stack = ReplaceTop(res.stack, r.f),
                        !.started = {r.f.assistantMessage.toolCalls[r.f.index].id}]
       ELSE Continue([res EXCEPT !.stack = ReplaceTop(res.stack, r.f)])
    : res \in {res0}})

Resume(step) == [step EXCEPT !.next = "go"]

Stepped(res, step) ==
  [res EXCEPT !.stack = ReplaceTop(res.stack, step.f), !.ups = @ \o step.ups]

\* the invocation on top has taken a step; after a break the reader is
\* cancelled, so the next read reports the end of the stream at once
\* (1048-1050) and the code after the loop runs in the same turn
AfterStep(res, step0) ==
  Only({
    CASE last.next = "return" -> Finish(Stepped(res, last), "return")
      [] last.next = "exec"   -> Execute(Stepped(res, last))
      [] OTHER                -> LoopTop(Stepped(res, last))
    : last \in {IF step0.next = "break" THEN Then(Resume(step0), AfterLoop(step0.f, Malformed))
                ELSE step0}})

\* the abort is found by a catch (1535-1577 around the read, 1804-1862
\* around the request)
Caught(res0, where) ==
  Only({
    LET f == Top(res.stack)
        cancelled == CancelledMessage(f)
    IN Finish([res EXCEPT
                 !.stack = ReplaceTop(res.stack, [f EXCEPT !.assistantMessage = cancelled]),
                 !.ups = @ \o <<Update(cancelled, TRUE)>>,
                 !.cancelWhere = where,
                 !.cancelText = Or(f.accumulatedContent, f.assistantMessage.content)],
              "return")
    : res \in {res0}})

\* another error reaches the outer catch of the invocation on top (1863-1873)
Thrown(res0) ==
  Only({
    LET f == Top(res.stack)
        error == ErrorMessage(f)
    IN Finish([res EXCEPT
                 !.stack = ReplaceTop(res.stack, [f EXCEPT !.assistantMessage = error]),
                 !.ups = @ \o <<Update(error, TRUE)>>],
              "throw")
    : res \in {res0}})

\* ------------------------------------------------------- the environment
Rec(content, thinking, toolCalls, done) ==
  [ok |-> TRUE, content |-> content, thinking |-> thinking, toolCalls |-> toolCalls,
   done |-> done]

Call(name, arguments) == [name |-> name, arguments |-> arguments]
Resolving == Call("web_search", "query:x")
Rejecting == Call("tool_x", "{}")
Unparsable == Call("web_search", "not json")
Repeat(call, n) == [i \in 1..n |-> call]

\* a batch one short of the ceiling; the model sends it only in answer to
\* the first request of a chain
LargeBatch == Repeat(Resolving, MAX_TOOL_CALLS - 1)

Batches ==
  {<<Resolving>>, <<Rejecting, Resolving>>, <<Unparsable, Resolving>>, LargeBatch}

Fragments == {<<"a">>, <<"a", "b">>, <<"T">>, <<"L", "a">>, <<"<t>", "b", "</t>", "a">>}

Records ==
  {Malformed, Rec(<<>>, <<>>, <<>>, TRUE), Rec(<<>>, <<"h">>, <<>>, FALSE)}
  \cup {Rec(c, <<>>, <<>>, FALSE) : c \in Fragments}
  \cup {Rec(<<>>, <<>>, b, FALSE) : b \in Batches}

\* a last line without its newline
Tails == {Rec(<<"a", "b">>, <<>>, <<>>, TRUE), Rec(<<"T">>, <<>>, <<>>, FALSE)}

Configs == [webSearchEnabled : BOOLEAN, toolExecutor : BOOLEAN]

\* the conversation so far, as App.tsx passes it
Histories ==
  {<<Message(HISTORY_USER_ID, "user", <<"b">>),
     Message(HISTORY_ASSISTANT_ID, "assistant", <<"a">>)>>}

\* --------------------------------------------------------------- actions
Rest(h) ==
  /\ stack = <<>>
  /\ abortController = 0
  /\ outcome = "idle"
  /\ emitted = <<>>
  /\ doneCount = 0
  /\ execCount = 0
  /\ fetchCount = 0
  /\ rounds = 0
  /\ inFlight = {}
  /\ history = h
  /\ other = NoChain

Idle == Rest(NoHistory)

\* no text function has been called and the reconciler has been given nothing
NoResult == [fn |-> "none", cleanText |-> <<>>, thinking |-> <<>>, toolCalls |-> <<>>]

\* the read loop by chunks: the bytes sent, the bytes not yet read, the
\* buffer, the records parsed so far, the invocation, whether the loop was
\* left at a line (break or return), and whether the reader reported the end
NewReader(bytes, f) ==
  [source |-> bytes, rest |-> bytes, buffer |-> <<>>, parsed |-> <<>>, f |-> f,
   stopped |-> FALSE, done |-> FALSE]

NoReader == [source |-> <<>>, rest |-> <<>>, buffer |-> <<>>, parsed |-> <<>>, f |-> <<>>,
             stopped |-> FALSE, done |-> TRUE]

NoText == fed = <<>> /\ subject = <<>> /\ returned = NoResult /\ reader = NoReader

Init == config \in Configs /\ Idle /\ NoText

\* the history after a step that read no line, and after one in which the
\* invocation f read the line r, in the loop or as the last buffer
Unread == [history EXCEPT !.lastRead = <<>>]

Read(f, r, inLoop) ==
  IF ~history.traced THEN history
  ELSE [history EXCEPT
          !.lastRead = IF inLoop THEN <<r>> ELSE <<>>,
          !.contText = IF f.continuation /\ r.ok /\ r.content # <<>>
                       THEN Append(@, r.content) ELSE @]


\* the state after a step of the chain; a step that would enter more than
\* max invocations is left out
Apply(res, h, max) ==
  /\ rounds + res.pushes <= max
  /\ stack' = res.stack
  /\ abortController' = res.ac
  /\ outcome' = res.outcome
  /\ emitted' = res.ups
  /\ doneCount' = doneCount + CountDone(res.ups)
  /\ execCount' = execCount + Cardinality(res.started)
  /\ fetchCount' = fetchCount + res.pushes
  /\ rounds' = rounds + res.pushes
  /\ inFlight' = (inFlight \ res.settled) \cup res.started
  /\ history' = IF res.cancelWhere = "none" THEN h
                ELSE [h EXCEPT !.cancelWhere = res.cancelWhere,
                               !.cancelText = res.cancelText]
  /\ UNCHANGED <<config, fed, subject, returned, other, reader>>

At(pc) == stack # <<>> /\ Top(stack).pc = pc

RECURSIVE Delivered(_)
\* the lines the chain has read so far
Delivered(stk) == IF stk = <<>> THEN 0 ELSE Top(stk).reads + Delivered(Pop(stk))

\* App.tsx calls sendMessage (263-330): the invocation runs to its request
SendMessage(messages) ==
  /\ outcome = "idle" /\ config \in Configs
  /\ \E res \in {[Running(1) EXCEPT
                     !.stack = <<NewFrame(1, messages, <<"a">>, 0)>>, !.pushes = 1]} :
        Apply(res, Unread, MaxRounds)

\* the request is answered with an OK status (977-1004)
FetchOk(max) ==
  /\ At("awaitFetch") /\ ~Top(stack).aborted
  /\ \E res \in {LoopTop(Running(abortController))} : Apply(res, Unread, max)

\* the request fails or is answered with another status (977, 995-998)
FetchFail ==
  /\ At("awaitFetch") /\ ~Top(stack).aborted
  /\ \E res \in {Thrown(Running(abortController))} :
        Apply(res, [Unread EXCEPT !.fetchFailed = TRUE], MaxRounds)

\* the request is rejected with an AbortError
FetchAbort ==
  /\ At("awaitFetch") /\ Top(stack).aborted
  /\ \E res \in {Caught(Running(abortController), "fetch")} :
        Apply(res, Unread, MaxRounds)

\* a read delivers a line (1048-1533)
ReadRecord(r, max, maxReads) ==
  LET f == Top(stack)
      f1 == [f EXCEPT !.reads = @ + 1]
  IN /\ At("awaitRead") /\ ~f.aborted /\ ~f.readerCancelled /\ Delivered(stack) < maxReads
     /\ r.toolCalls = LargeBatch => ~f.continuation
     /\ \E res \in {AfterStep(Running(abortController), ProcessRecord(f1, r))} :
           Apply(res, Read(f, r, TRUE), max)

\* a read reports the end of the stream (1050, 1579-1798)
ReadEnd(tail, max) ==
  LET f == Top(stack)
      f1 == IF tail.ok THEN [f EXCEPT !.reads = @ + 1] ELSE f
  IN /\ At("awaitRead") /\ ~f.aborted
     /\ tail.ok => ~f.readerCancelled /\ Delivered(stack) < MaxReads
     /\ \E res \in {AfterStep(Running(abortController), AfterLoop(f1, tail))} :
           Apply(res, IF tail.ok THEN Read(f, tail, FALSE) ELSE Unread, max)

\* a read is rejected with an AbortError (1535-1574)
ReadAbort ==
  /\ At("awaitRead") /\ Top(stack).aborted
  /\ \E res \in {Caught(Running(abortController), "read")} :
        Apply(res, Unread, MaxRounds)

\* a read is rejected with another error (1575-1576)
ReadFail ==
  /\ At("awaitRead") /\ ~Top(stack).aborted /\ ~Top(stack).readerCancelled
  /\ \E res \in {Thrown(Running(abortController))} :
        Apply(res, [Unread EXCEPT !.streamFailed = TRUE], MaxRounds)

\* the executor's promise settles (1329-1346, 1679-1696)
ToolReturn(max) ==
  LET f == Top(stack)
      id == f.assistantMessage.toolCalls[f.index].id
      res == [Running(abortController) EXCEPT
                !.stack = ReplaceTop(stack, Settled(f)), !.settled = {id}]
  IN /\ At("awaitTool")
     /\ \E after \in {Execute(res)} : Apply(after, Unread, max)

\* cancelRequest (121-126), called from App.tsx while the chain is awaiting
CancelRequest ==
  /\ stack # <<>> /\ abortController # 0 /\ history.cancels < MaxCancels
  /\ stack' = [stack EXCEPT ![abortController].aborted = TRUE]
  /\ abortController' = 0
  /\ emitted' = <<>>
  /\ history' = [history EXCEPT !.cancels = @ + 1,
                                !.cancelDuringTool = @ \/ At("awaitTool"),
                                !.lastRead = <<>>]
  /\ UNCHANGED <<config, outcome, doneCount, execCount, fetchCount, rounds, inFlight,
                 fed, subject, returned, other, reader>>

Next ==
  \/ \E messages \in Histories : SendMessage(messages)
  \/ FetchOk(MaxRounds)
  \/ FetchFail
  \/ FetchAbort
  \/ \E r \in Records : ReadRecord(r, MaxRounds, MaxReads)
  \/ \E tail \in Tails \cup {Malformed} : ReadEnd(tail, MaxRounds)
  \/ ReadAbort
  \/ ReadFail
  \/ ToolReturn(MaxRounds)
  \/ CancelRequest

Spec == Init /\ [][Next]_vars

\* A model that asks for one tool in every round: the executor is set, web
\* search is off, every stream carries one line with one native call, and
\* the chain may enter MaxDeepRounds invocations.
DeepRecords == {Rec(<<>>, <<>>, <<Resolving>>, FALSE)}

InitDeep == config = [webSearchEnabled |-> FALSE, toolExecutor |-> TRUE] /\ Idle /\ NoText

NextDeep ==
  \/ \E messages \in Histories : SendMessage(messages)
  \/ FetchOk(MaxDeepRounds)
  \/ FetchAbort
  \/ \E r \in DeepRecords : ReadRecord(r, MaxDeepRounds, MaxDeepRounds)
  \/ ReadEnd(Malformed, MaxDeepRounds)
  \/ ReadAbort
  \/ ToolReturn(MaxDeepRounds)
  \/ CancelRequest

SpecDeep == InitDeep /\ [][NextDeep]_vars

\* A model that writes down the lines it reads: no request fails and
\* nothing is cancelled.
TracedRecords ==
  {Malformed, Rec(<<>>, <<>>, <<>>, TRUE), Rec(<<>>, <<"h">>, <<>>, FALSE),
   Rec(<<>>, <<>>, <<Resolving>>, FALSE),
   Rec(<<"<t>", "L", "</t>", "a">>, <<>>, <<>>, FALSE),
   Rec(<<"Q", "a">>, <<>>, <<>>, FALSE),
   Rec(<<"<t>", "b">>, <<>>, <<>>, FALSE)}
  \cup {Rec(c, <<>>, <<>>, FALSE) : c \in Fragments}

\* what the buffer may hold at the end of the stream: nothing, one of Tails,
\* or a last line with a long text
TracedTails == Tails \cup {Malformed, Rec(<<"L", "a">>, <<>>, <<>>, FALSE)}

InitTraced ==
  config \in Configs /\ Rest([NoHistory EXCEPT !.traced = TRUE]) /\ NoText

NextTraced ==
  \/ \E messages \in Histories : SendMessage(messages)
  \/ FetchOk(MaxRounds)
  \/ \E r \in TracedRecords : ReadRecord(r, MaxRounds, MaxReads)
  \/ \E tail \in TracedTails : ReadEnd(tail, MaxRounds)
  \/ ToolReturn(MaxRounds)

SpecTraced == InitTraced /\ [][NextTraced]_vars

\* A model of the ceiling: the executor is set, web search is off, the lines
\* read are written down, and a line may carry a batch of native calls as
\* large as the ceiling or up to MaxOver calls larger.
CeilingBatches ==
  {<<Resolving>>} \cup {Repeat(Resolving, MAX_TOOL_CALLS + k) : k \in 0..MaxOver}

CeilingRecords ==
  {Rec(<<>>, <<>>, <<>>, TRUE), Rec(<<"a">>, <<>>, <<>>, FALSE),
   Rec(<<"T">>, <<>>, <<>>, FALSE)}
  \cup {Rec(<<>>, <<>>, b, FALSE) : b \in CeilingBatches}

InitCeiling ==
  /\ config = [webSearchEnabled |-> FALSE, toolExecutor |-> TRUE]
  /\ Rest([NoHistory EXCEPT !.traced = TRUE]) /\ NoText

NextCeiling ==
  \/ \E messages \in Histories : SendMessage(messages)
  \/ FetchOk(MaxRounds)
  \/ \E r \in CeilingRecords : ReadRecord(r, MaxRounds, MaxReads)
  \/ ReadEnd(Malformed, MaxRounds)
  \/ ToolReturn(MaxRounds)

SpecCeiling == InitCeiling /\ [][NextCeiling]_vars

\* Two chains on one ChatService: a second sendMessage is called while the
\* first is awaiting; neither runs tools (no executor). this.abortController
\* is one field: OtherController stands for the controller the invocation of
\* the second chain made (972-974).
OtherController == MaxRounds + 1

OverlapRecords == {Rec(<<"a">>, <<>>, <<>>, FALSE), Rec(<<>>, <<>>, <<>>, TRUE)}

InitOverlap ==
  config = [webSearchEnabled |-> FALSE, toolExecutor |-> FALSE] /\ Idle /\ NoText

RunningOther == [Running(abortController) EXCEPT !.stack = other.stack]

OtherAt(pc) == other.stack # <<>> /\ Top(other.stack).pc = pc

\* the state after a step of the second chain
ApplyOther(res) ==
  /\ other' = [other EXCEPT
                 !.stack = res.stack, !.outcome = res.outcome, !.ups = res.ups,
                 !.cancelWhere = IF res.cancelWhere = "none" THEN @ ELSE res.cancelWhere]
  /\ abortController' = res.ac
  /\ UNCHANGED <<config, stack, outcome, emitted, doneCount, execCount, fetchCount,
                 rounds, inFlight, history, fed, subject, returned, reader>>

\* sendMessage is called again while the first chain is awaiting: the new
\* invocation runs to its request and this.abortController is overwritten
SendOther(messages) ==
  /\ outcome = "pending" /\ other.outcome = "idle"
  /\ \E res \in {[RunningOther EXCEPT
                     !.stack = <<NewFrame(OtherController, messages, <<"b">>, 0)>>,
                     !.ac = OtherController]} :
        ApplyOther(res)

OtherFetchOk ==
  /\ OtherAt("awaitFetch") /\ ~Top(other.stack).aborted
  /\ \E res \in {LoopTop(RunningOther)} : ApplyOther(res)

OtherFetchAbort ==
  /\ OtherAt("awaitFetch") /\ Top(other.stack).aborted
  /\ \E res \in {Caught(RunningOther, "fetch")} : ApplyOther(res)

OtherReadRecord(r) ==
  LET f == Top(other.stack)
      f1 == [f EXCEPT !.reads = @ + 1]
  IN /\ OtherAt("awaitRead") /\ ~f.aborted /\ f.reads < MaxReads
     /\ \E res \in {AfterStep(RunningOther, ProcessRecord(f1, r))} : ApplyOther(res)

OtherReadEnd ==
  /\ OtherAt("awaitRead") /\ ~Top(other.stack).aborted
  /\ \E res \in {AfterStep(RunningOther, AfterLoop(Top(other.stack), Malformed))} :
        ApplyOther(res)

OtherReadAbort ==
  /\ OtherAt("awaitRead") /\ Top(other.stack).aborted
  /\ \E res \in {Caught(RunningOther, "read")} : ApplyOther(res)

\* cancelRequest (121-126) with two chains: it aborts the controller the
\* field holds, if it holds one, and clears the field
CancelOverlapped ==
  /\ outcome # "idle" /\ history.cancels < MaxCancels
  /\ stack' = IF abortController \in 1..Len(stack)
              THEN [stack EXCEPT ![abortController].aborted = TRUE] ELSE stack
  /\ other' = [other EXCEPT
                 !.stack = IF abortController = OtherController /\ other.stack # <<>>
                           THEN [@ EXCEPT ![1].aborted = TRUE] ELSE @,
                 !.asked = @ \/ OtherAt("awaitRead")]
  /\ abortController' = 0
  /\ emitted' = <<>>
  /\ history' = [history EXCEPT !.cancels = @ + 1]
  /\ UNCHANGED <<config, outcome, doneCount, execCount, fetchCount, rounds, inFlight,
                 fed, subject, returned, reader>>

NextOverlap ==
  \/ \E messages \in Histories : SendMessage(messages)
  \/ FetchOk(MaxRounds)
  \/ FetchAbort
  \/ \E r \in OverlapRecords : ReadRecord(r, MaxRounds, MaxReads)
  \/ ReadEnd(Malformed, MaxRounds)
  \/ ReadAbort
  \/ \E messages \in Histories : SendOther(messages)
  \/ OtherFetchOk
  \/ OtherFetchAbort
  \/ \E r \in OverlapRecords : OtherReadRecord(r)
  \/ OtherReadEnd
  \/ OtherReadAbort
  \/ CancelOverlapped

SpecOverlap == InitOverlap /\ [][NextOverlap]_vars

\* The read loop by chunks (1048-1063, 1579-1625). The bytes of a stream
\* are tokens: a line is written in two halves ("a1" "a2": a record with
\* content "a"; "c1" "c2": a record with one native tool call) and "nl" is
\* the newline. A chunk is any non-empty prefix of the bytes not yet read.
LineTexts == {<<"a1", "a2">>, <<"c1", "c2">>}

\* JSON.parse(line): it throws on anything but the whole text of a record
JsonParse(line) ==
  IF line = <<"a1", "a2">> THEN Rec(<<"a">>, <<>>, <<>>, FALSE)
  ELSE IF line = <<"c1", "c2">> THEN Rec(<<>>, <<>>, <<Resolving>>, FALSE)
  ELSE Malformed

RECURSIVE Split(_)
\* text.split('\n')
Split(text) ==
  LET at == {i \in 1..Len(text) : text[i] = "nl"}
      first == CHOOSE i \in at : \A j \in at : i <= j
  IN IF at = {} THEN <<text>>
     ELSE <<SubSeq(text, 1, first - 1)>> \o Split(SubSeq(text, first + 1, Len(text)))

RECURSIVE ForLines(_, _)
\* for (const line of lines): blank lines and lines that do not parse are
\* passed over; a line whose processing breaks or returns ends the loop
ForLines(rd, lines) ==
  IF lines = <<>> THEN rd
  ELSE IF ~JsonParse(Head(lines)).ok THEN ForLines(rd, Tail(lines))
  ELSE Only({
         IF step.next = "go"
         THEN ForLines([rd EXCEPT !.f = step.f, !.parsed = Append(@, JsonParse(Head(lines)))],
                       Tail(lines))
         ELSE [rd EXCEPT !.f = step.f, !.parsed = Append(@, JsonParse(Head(lines))),
                         !.stopped = TRUE]
         : step \in {ProcessRecord(rd.f, JsonParse(Head(lines)))}})

\* a read delivers a chunk: buffer += chunk, lines = buffer.split('\n'),
\* buffer = lines.pop(), then the lines in order
OnChunk(rd, n) ==
  Only({ ForLines([rd EXCEPT !.rest = SubSeq(@, n + 1, Len(@)),
                             !.buffer = lines[Len(lines)]],
                  SubSeq(lines, 1, Len(lines) - 1))
         : lines \in {Split(rd.buffer \o SubSeq(rd.rest, 1, n))}})

\* the reader reports the end: what is left in the buffer is parsed
OnDone(rd) ==
  [rd EXCEPT !.done = TRUE,
             !.parsed = IF JsonParse(rd.buffer).ok THEN Append(@, JsonParse(rd.buffer)) ELSE @]

RECURSIVE Join(_, _)
\* the bytes of the lines, a newline after each but the last, and after the
\* last one if the stream ends with a newline
Join(lines, terminated) ==
  IF Len(lines) = 1 THEN Head(lines) \o (IF terminated THEN <<"nl">> ELSE <<>>)
  ELSE Head(lines) \o <<"nl">> \o Join(Tail(lines), terminated)

Streams ==
  {Join(lines, terminated) :
     lines \in UNION {[1..n -> LineTexts] : n \in 1..MaxLines}, terminated \in BOOLEAN}

\* the invocation at its first read
Reading(messages) == [NewFrame(1, messages, <<"a">>, 0) EXCEPT !.pc = "awaitRead"]

InitChunks ==
  /\ config = [webSearchEnabled |-> FALSE, toolExecutor |-> TRUE] /\ Idle
  /\ fed = <<>> /\ subject = <<>> /\ returned = NoResult
  /\ reader \in {NewReader(bytes, Reading(messages))
                  : bytes \in Streams, messages \in Histories}

ReaderOnly ==
  UNCHANGED <<config, stack, abortController, outcome, emitted, doneCount, execCount,
              fetchCount, rounds, inFlight, history, fed, subject, returned, other>>

\* reader.read() delivers the next n bytes (1048-1533)
ReadChunk(n) ==
  /\ ~reader.done /\ ~reader.stopped /\ n \in 1..Len(reader.rest)
  /\ reader' = OnChunk(reader, n)
  /\ ReaderOnly

\* reader.read() reports done: the stream is over, or the reader was
\* cancelled at a break (1050, 1579-1625)
ReadDone ==
  /\ ~reader.done /\ (reader.rest = <<>> \/ reader.stopped)
  /\ reader' = OnDone(reader)
  /\ ReaderOnly

NextChunks ==
  \/ \E n \in 1..(3 * MaxLines) : ReadChunk(n)
  \/ ReadDone

SpecChunks == InitChunks /\ [][NextChunks]_vars

\* The reconciler alone: it starts from the empty text and is given one
\* fragment after another (1080-1106, and 1591-1609 for the last buffer).
ReconcilerFragments ==
  {<<"a">>, <<"b">>, <<"a", "b">>, <<"a", "b", "a">>, <<"L">>, <<"L", "a">>}

Accumulated == IF fed = <<>> THEN <<>> ELSE fed[Len(fed)].accumulated

InitReconciler ==
  config = [webSearchEnabled |-> FALSE, toolExecutor |-> FALSE] /\ Idle /\ NoText

Feed(messageContent) ==
  /\ Len(fed) < MaxFeeds
  /\ fed' = Append(fed, [fragment |-> messageContent,
                         accumulated |-> IF messageContent = <<>> THEN Accumulated
                                         ELSE Reconcile(Accumulated, messageContent)])
  /\ UNCHANGED <<config, stack, abortController, outcome, emitted, doneCount, execCount,
                 fetchCount, rounds, inFlight, history, subject, returned, other, reader>>

NextReconciler == \E messageContent \in ReconcilerFragments : Feed(messageContent)

SpecReconciler == InitReconciler /\ [][NextReconciler]_vars

\* The text functions alone: a text is chosen, and extractThinking,
\* parseToolCalls and removeToolCalls are called on it.
PadTokens == {"a", "b", " "}

Pads == UNION {[1..n -> PadTokens] : n \in 0..MaxPad}

Middles ==
  {<<>>}
  \cup {<<t>> : t \in {"T", "Q", "U", "E", "N", "B", "C"}}
  \cup {<<"<t>">> \o body \o <<"</t>">> : body \in Pads}
  \cup {<<"<c>">> \o gap \o <<t>> \o gap \o <<"</c>">> \o tail :
           gap \in {<<>>, <<" ">>}, t \in {"T", "N", "U"}, tail \in {<<>>, <<" ", "T">>}}

Texts == {before \o middle \o after : before \in Pads, middle \in Middles, after \in Pads}

InitText ==
  /\ config = [webSearchEnabled |-> FALSE, toolExecutor |-> FALSE] /\ Idle
  /\ fed = <<>> /\ subject \in Texts /\ returned = NoResult /\ reader = NoReader

\* what a call of a text function leaves alone
TextOnly ==
  UNCHANGED <<config, stack, abortController, outcome, emitted, doneCount, execCount,
              fetchCount, rounds, inFlight, history, fed, subject, other, reader>>

CallExtractThinking ==
  /\ returned' = [NoResult EXCEPT !.fn = "extractThinking",
                                  !.cleanText = ExtractThinking(subject).cleanText,
                                  !.thinking = ExtractThinking(subject).thinking]
  /\ TextOnly

CallParseToolCalls ==
  /\ returned' = [NoResult EXCEPT !.fn = "parseToolCalls",
                                  !.toolCalls = ParseToolCalls(subject)]
  /\ TextOnly

CallRemoveToolCalls ==
  /\ returned' = [NoResult EXCEPT !.fn = "removeToolCalls",
                                  !.cleanText = RemoveToolCalls(subject)]
  /\ TextOnly

NextText == CallExtractThinking \/ CallParseToolCalls \/ CallRemoveToolCalls

SpecText == InitText /\ [][NextText]_vars

\* ---------------------------------------------------------- the statements
Frames == {stack[i] : i \in DOMAIN stack}
Ended == outcome \in {"resolved", "rejected"}

\* C1: a chain that ends without a thrown error has given onUpdate exactly
\* one update with isDone = true.
C1_ExactlyOneTerminalUpdate == outcome = "resolved" => doneCount = 1

\* C2: over one chain the tool executor is invoked at most 20 times,
\* however the calls are spread over the rounds.
C2_AtMostTwentyExecutions == execCount <= MAX_TOOL_CALLS

\* C3: the call ceiling bounds the continuation rounds: with a tool
\* executed in every round, the chain ends no later than in the invocation
\* that starts with the ceiling reached, the twenty-first.
C3_CeilingBoundsRounds == rounds <= MAX_TOOL_CALLS + 1

\* C4: a round whose accumulated text holds exactly one valid inline tool
\* call, with no native tool_calls in its stream, has invoked the executor
\* exactly once and holds exactly one tool result when it continues.
OneInlineCall(f) ==
  /\ ~f.nativeSeen /\ ~f.forcedToolCall
  /\ Len(ParseToolCalls(f.accumulatedContent)) = 1
  /\ HasValidToolCalls(ParseToolCalls(f.accumulatedContent))

C4_OneInlineCallRunsOnce ==
  \A f \in Frames :
    f.pc = "awaitCont" /\ OneInlineCall(f) => Len(f.ran) = 1 /\ Len(f.toolResults) = 1

\* C5: when an inference request of any round has failed, the chain ends
\* with the top-level sendMessage rejected.
C5_FetchFailureRejects == history.fetchFailed /\ Ended => outcome = "rejected"

\* C6: once the abort is found at the top of the read loop or as the
\* AbortError of a read, the chain is over: nothing is awaited, no tool is in
\* flight, the top-level call has returned, and the last update given is the
\* only one of that step that carries the cancellation notice: isDone = true,
\* isStreaming = false, its content the visible text of what was accumulated
\* followed by the notice.
IsCancelUpdate(u) ==
  /\ u.isDone /\ ~u.message.isStreaming
  /\ u.message.content = FinalContent(history.cancelText) \o <<NOTICE_CANCELLED>>

C6_CancelEndsChain ==
  history.cancelWhere \in {"loop", "read"} =>
    /\ stack = <<>> /\ outcome = "resolved" /\ inFlight = {}
    /\ emitted # <<>> /\ IsCancelUpdate(emitted[Len(emitted)])
    /\ Cardinality({k \in DOMAIN emitted :
                      EndsWith(emitted[k].message.content, <<NOTICE_CANCELLED>>)}) = 1

C6_Witness ==
  /\ history.cancelWhere \in {"loop", "read"}
  /\ FinalContent(history.cancelText) # history.cancelText
  /\ emitted # <<>> /\ IsCancelUpdate(emitted[Len(emitted)])

\* C7: a chain in which cancelRequest was called while a tool was running
\* does not run to completion: it finds the abort.
C7_CancelDuringToolObserved ==
  history.cancelDuringTool /\ outcome = "resolved" => history.cancelWhere # "none"

\* C8: when a round continues, its result list holds, apart from the entry
\* that reports the ceiling for a call that was not executed, exactly one
\* result for each call the loop executed, with that call's id and name, in
\* the order of execution, and it is the list of the assistant turn.
ExecutedResults(f) ==
  Keep(f.toolResults, {k \in 1..Len(f.toolResults) : f.toolResults[k].result # "limit"})

ResultOf(f, k) ==
  LET tr == ExecutedResults(f)[k]
  IN /\ tr.toolCallId = f.ran[k]
     /\ tr.result \in {"ok", "error"}
     /\ \E c \in 1..Len(f.assistantMessage.toolCalls) :
           /\ f.assistantMessage.toolCalls[c].id = tr.toolCallId
           /\ f.assistantMessage.toolCalls[c].name = tr.name

C8_OneResultPerExecutedCall ==
  \A f \in Frames :
    f.pc = "awaitCont" =>
      /\ Len(ExecutedResults(f)) = Len(f.ran)
      /\ \A k \in 1..Len(f.ran) : ResultOf(f, k)
      /\ f.assistantMessage.toolResults = f.toolResults

C8_Witness ==
  \E f \in Frames :
    /\ f.pc = "awaitCont" /\ Len(f.ran) >= 2
    /\ \E k \in 1..Len(f.toolResults) : f.toolResults[k].result = "error"
    /\ \E k \in 1..Len(f.toolResults) : f.toolResults[k].result = "ok"

\* C9: the calls an execution loop has executed are the first calls of the
\* round's tool-call list, in the order of the list, and at most one
\* execution is in flight: that of the last call the loop has reached.
C9_SequentialInOrder ==
  /\ Cardinality(inFlight) <= 1
  /\ \A f \in Frames :
       f.pc \in {"awaitTool", "awaitCont"} =>
         /\ Len(f.ran) <= Len(f.assistantMessage.toolCalls)
         /\ \A k \in 1..Len(f.ran) : f.ran[k] = f.assistantMessage.toolCalls[k].id
         /\ f.pc = "awaitTool" => inFlight = {f.ran[Len(f.ran)]}

C9_Witness ==
  \E f \in Frames :
    /\ f.pc = "awaitTool" /\ Len(f.ran) >= 3
    /\ inFlight = {f.ran[Len(f.ran)]}

\* C10: a round that continues with an error result (the executor rejected,
\* or the arguments did not parse) has passed that result to the
\* continuation as a tool turn, no executor error has rejected the
\* top-level call, and the round has executed all of its calls.
HasError(f) == \E k \in 1..Len(f.toolResults) : f.toolResults[k].result = "error"

ErrorsInHistory(i) ==
  \A k \in 1..Len(stack[i].toolResults) :
    stack[i].toolResults[k].result = "error" =>
      \E m \in 1..Len(stack[i + 1].messages) :
        /\ stack[i + 1].messages[m].role = "tool"
        /\ stack[i + 1].messages[m].toolResults = <<stack[i].toolResults[k]>>

C10_ErrorThenAllRemainingRun ==
  /\ outcome = "rejected" => history.fetchFailed \/ history.streamFailed
  /\ \A i \in DOMAIN stack :
       stack[i].pc = "awaitCont" /\ HasError(stack[i]) =>
         /\ ErrorsInHistory(i)
         /\ Len(stack[i].ran) = Len(stack[i].assistantMessage.toolCalls)

\* C10, with the ceiling: the round has executed all of its calls unless
\* the count of executed calls reached the ceiling.
C10_ErrorThenRemainingRunUpToCeiling ==
  /\ outcome = "rejected" => history.fetchFailed \/ history.streamFailed
  /\ \A i \in DOMAIN stack :
       stack[i].pc = "awaitCont" /\ HasError(stack[i]) =>
         /\ ErrorsInHistory(i)
         /\ \/ Len(stack[i].ran) = Len(stack[i].assistantMessage.toolCalls)
            \/ stack[i].totalToolCallsExecuted >= MAX_TOOL_CALLS

C10_Witness ==
  \E f \in Frames :
    /\ f.pc = "awaitCont" /\ Len(f.toolResults) = 2
    /\ f.toolResults[1].result = "error" /\ f.toolResults[2].result = "ok"

\* text with no inline call and no thinking tag in it
PlainText(s) == \A i \in 1..Len(s) : ~IsInlineCall(s[i]) /\ ~IsTag(s[i])

\* the chain ended after one round of tools and one continuation, and the
\* continuation read the text T in one line and no tool call
ContinuationStreamed(T) ==
  /\ outcome = "resolved" /\ rounds = 2 /\ execCount >= 1
  /\ history.contText = <<T>> /\ PlainText(T)
  /\ emitted # <<>> /\ emitted[Len(emitted)].isDone

\* C11: when the first round of a chain ends in tool execution and the
\* continuation streams the plain text T and no tool call, the content of
\* the terminal update is T with its trailing punctuation cleaned, and no
\* text of the first round is mixed into it.
C11_ContinuationTextIsFinalContent ==
  \A T \in Fragments :
    ContinuationStreamed(T) =>
      emitted[Len(emitted)].message.content = CleanTrailingPunctuation(T)

RECURSIVE Concatenation(_)
\* the fragments given so far, joined in order
Concatenation(feeds) ==
  IF feeds = <<>> THEN <<>>
  ELSE Concatenation(SubSeq(feeds, 1, Len(feeds) - 1)) \o feeds[Len(feeds)].fragment

\* no fragment repeats the text before it: every fragment can only be new text
Incremental(feeds) ==
  \A i \in 2..Len(feeds) :
    ~StartsWith(feeds[i].fragment, Concatenation(SubSeq(feeds, 1, i - 1)))

\* C12: for purely incremental fragments given to the reconciler from the
\* empty text, the accumulated text is the concatenation of the fragments
\* in order.
C12_IncrementalConcatenates ==
  Incremental(fed) => Accumulated = Concatenation(fed)

\* every fragment has the one before it as a prefix
Cumulative(feeds) ==
  \A i \in 2..Len(feeds) : StartsWith(feeds[i].fragment, feeds[i - 1].fragment)

\* C13: for purely cumulative fragments given to the reconciler from the
\* empty text, the accumulated text is the last fragment.
C13_CumulativeKeepsLast ==
  (fed # <<>> /\ Cumulative(fed)) => Accumulated = fed[Len(fed)].fragment

C13_Witness ==
  /\ Len(fed) = 3 /\ Cumulative(fed)
  /\ fed[1].fragment = <<"a">> /\ fed[2].fragment = <<"a", "b">>
  /\ Accumulated = <<"a", "b", "a">>

\* the accumulated text before the i-th fragment was given
Before(feeds, i) == IF i = 1 THEN <<>> ELSE feeds[i - 1].accumulated

\* the i-th fragment was cumulative and the next one is the same fragment
Replayed(feeds, i) ==
  /\ i + 1 <= Len(feeds)
  /\ StartsWith(feeds[i].fragment, Before(feeds, i))
  /\ feeds[i + 1].fragment = feeds[i].fragment

\* C14: a cumulative fragment reconciled a second time, right after the
\* first, leaves the accumulated text as it was: nothing is duplicated.
C14_ReplayIsIdempotent ==
  \A i \in 1..Len(fed) :
    Replayed(fed, i) => fed[i + 1].accumulated = fed[i].accumulated

C14_Witness ==
  /\ Len(fed) = 3 /\ Replayed(fed, 2)
  /\ fed[1].fragment = <<"a">> /\ fed[2].fragment = <<"a", "b">>
  /\ Accumulated = <<"a", "b">>

\* C15: the reconciler never loses accumulated text: the text accumulated
\* before a non-empty fragment is a prefix of the text accumulated after it.
C15_AccumulatedIsKept ==
  \A i \in 1..Len(fed) :
    fed[i].fragment # <<>> => StartsWith(fed[i].accumulated, Before(fed, i))

\* the step read a line that is not JSON
ReadMalformedLine == stack # <<>> /\ history'.lastRead = <<Malformed>>

\* C16: a line that is not valid JSON is skipped: the invocation's
\* accumulated content, thinking text, tool calls and every other local are
\* as they were (only the count of lines read grows), no update is given,
\* and so every later record is processed as if the line had not been there.
C16_MalformedLineIsSkipped ==
  [][ReadMalformedLine =>
        /\ emitted' = <<>>
        /\ stack' = ReplaceTop(stack, [Top(stack) EXCEPT !.reads = @ + 1])
        /\ UNCHANGED <<config, abortController, outcome, doneCount, execCount,
                       fetchCount, rounds, inFlight>>]_vars

C16_Witness ==
  /\ history.lastRead = <<Malformed>>
  /\ stack # <<>> /\ Top(stack).pc = "awaitRead"
  /\ Top(stack).accumulatedContent = <<"a", "b">>
  /\ Top(stack).reads = 2

\* the places of the tags of a text
OpenTags(s) == {i \in 1..Len(s) : s[i] = "<t>"}
CloseTags(s) == {i \in 1..Len(s) : s[i] = "</t>"}

\* the text has one open tag, one close tag, and the open tag comes first
OnePair(s) ==
  /\ Cardinality(OpenTags(s)) = 1 /\ Cardinality(CloseTags(s)) = 1
  /\ \A i \in OpenTags(s) : \A j \in CloseTags(s) : i < j

\* C17: for a text with exactly one well-formed thinking tag pair,
\* extractThinking returns the body of the pair as the thinking text and,
\* as the visible text, the text before the pair followed by the text after
\* it with only its trailing whitespace trimmed.
C17_ExtractThinkingRoundTrips ==
  (returned.fn = "extractThinking" /\ OnePair(subject)) =>
    \A i \in OpenTags(subject) : \A j \in CloseTags(subject) :
      /\ returned.thinking = SubSeq(subject, i + 1, j - 1)
      /\ returned.cleanText =
           TrimEnd(SubSeq(subject, 1, i - 1) \o SubSeq(subject, j + 1, Len(subject)))

C17_Witness ==
  /\ returned.fn = "extractThinking"
  /\ subject = <<" ", "a", "<t>", "b", " ", "</t>", "b", " ">>
  /\ returned.thinking = <<"b", " ">>
  /\ returned.cleanText = <<" ", "a", "b">>

\* an inline web_search call and the query of its arguments
InlineWebSearch(t) == IsInlineCall(t) /\ MarkerName(t) = "web_search"
QueryMissingOrEmpty(t) == MarkerArgs(t) \in {"{}", "query:"}
QueryNonEmptyString(t) == MarkerArgs(t) \in {"query:x", "query:a}b"}

\* C18: parseToolCalls yields no tool call for an inline web_search call
\* whose query is missing or the empty string, and yields a tool call for
\* one whose query is a non-empty string.
C18_WebSearchNeedsQuery ==
  returned.fn = "parseToolCalls" =>
    \A i \in 1..Len(subject) :
      InlineWebSearch(subject[i]) =>
        /\ QueryMissingOrEmpty(subject[i]) => returned.toolCalls = <<>>
        /\ QueryNonEmptyString(subject[i]) =>
             returned.toolCalls = <<Call("web_search", MarkerArgs(subject[i]))>>

\* C19: removing a valid inline marker that stands between two words, one
\* space on each side of it, leaves the two words with exactly one space
\* between them.
C19_MarkerBetweenWords ==
  returned.fn = "removeToolCalls" =>
    \A before \in {"a", "b"} : \A after \in {"a", "b"} : \A t \in {"T", "Q", "U"} :
      subject = <<before, " ", t, " ", after>> =>
        returned.cleanText = <<before, " ", after>>

\* C20: for every parsed record of the stream that carries non-empty
\* message content, onUpdate is invoked at least once while the record is
\* processed.
C20_ContentRecordGivesUpdate ==
  \A i \in 1..Len(history.lastRead) :
    (history.lastRead[i].ok /\ history.lastRead[i].content # <<>>) => emitted # <<>>

\* C21: the call counter is not reset on continuation: when a continuation
\* round starts, its counter is the number of tool calls executed in all
\* earlier rounds of the chain, which is the counter of the round that
\* entered it.
C21_CounterCarriedOver ==
  \A i \in 2..Len(stack) :
    (stack[i].continuation /\ stack[i].pc = "awaitFetch") =>
      stack[i].totalToolCallsExecuted = stack[i - 1].totalToolCallsExecuted

\* the step reads a line that leaves tool calls pending (native calls on the
\* line, or an inline call in the text) while the counter of the invocation
\* is at the ceiling
CeilingAtRoundEnd ==
  /\ At("awaitRead") /\ config.toolExecutor
  /\ Top(stack).totalToolCallsExecuted >= MAX_TOOL_CALLS
  /\ history'.lastRead # <<>>
  /\ \E r \in {history'.lastRead[1]} :
        /\ r.ok
        /\ \/ r.toolCalls # <<>>
           \/ ParseToolCalls(Reconcile(Top(stack).accumulatedContent, r.content)) # <<>>

LimitUpdate(u) ==
  /\ u.isDone /\ u.message.content = <<NOTICE_LIMIT>>
  /\ u.message.toolCalls = <<>> /\ ~u.message.isStreaming

\* C22: when a round completes with tool calls pending and the counter is
\* already 20 or more, no tool call of the round is executed, no continuation
\* request is issued, and the chain ends with one isDone update: the limit
\* notice, with toolCalls cleared and isStreaming false.
C22_CeilingBeforeExecution ==
  [][CeilingAtRoundEnd =>
       /\ emitted' # <<>> /\ LimitUpdate(emitted'[Len(emitted')])
       /\ CountDone(emitted') = 1
       /\ execCount' = execCount /\ fetchCount' = fetchCount
       /\ stack' = <<>> /\ outcome' = "resolved"]_vars

C22_Witness ==
  /\ stack = <<>> /\ outcome = "resolved" /\ history.lastRead # <<>>
  /\ execCount >= MAX_TOOL_CALLS
  /\ emitted # <<>> /\ LimitUpdate(emitted[Len(emitted)])

\* the execution loop of the invocation met the ceiling after it had run at
\* least one call of the batch
HitCeilingMidBatch(f) ==
  /\ f.ran # <<>>
  /\ \E k \in 1..Len(f.toolResults) : f.toolResults[k].result = "limit"

\* C23: when the ceiling is reached part-way through a batch, the chain
\* ends with the limit notice and no continuation request is issued: no
\* invocation that met the ceiling in its batch is awaiting a continuation.
C23_NoContinuationAfterCeiling ==
  \A i \in 1..Len(stack) : HitCeilingMidBatch(stack[i]) => stack[i].pc # "awaitCont"

\* C24: when the ceiling is reached part-way through a batch, every call
\* left unexecuted gets a limit result, so the result list of the batch has
\* one entry per tool call of the batch.
C24_OneResultPerCallAtCeiling ==
  \A i \in 1..Len(stack) :
    HitCeilingMidBatch(stack[i]) =>
      Len(stack[i].toolResults) = Len(stack[i].assistantMessage.toolCalls)

\* the length of the visible content: the text outside thinking tags
VisibleLen(text) == CharLen(Trim(ExtractThinking(text).cleanText))

WebSearchMode == config.webSearchEnabled /\ config.toolExecutor

LongWithoutToolCall(f) ==
  /\ VisibleLen(f.accumulatedContent) > FORCE_THRESHOLD
  /\ ~f.hasReceivedToolCall /\ f.assistantMessage.toolCalls = <<>>
  /\ ParseToolCalls(f.accumulatedContent) = <<>>

\* C25: in web-search mode with an executor, as soon as the visible content
\* of a stream exceeds 50 characters with no tool call detected, a web_search
\* call is synthesized and executed before anything else: no invocation goes
\* on reading with such a content, and no chain ends on such a content
\* without the executor having been called.
C25_LongContentForcesSearch ==
  WebSearchMode =>
    /\ \A i \in 1..Len(stack) :
         stack[i].pc = "awaitRead" => ~LongWithoutToolCall(stack[i])
    /\ (/\ stack = <<>> /\ outcome = "resolved" /\ emitted # <<>>
        /\ emitted[Len(emitted)].isDone
        /\ CharLen(Trim(emitted[Len(emitted)].message.content)) > FORCE_THRESHOLD)
       => execCount > 0

\* the invocation synthesized its call in the read loop (it cancelled the
\* reader), not at a done record
ForcedMidStream(f) == f.forcedToolCall /\ f.readerCancelled

\* C26: a web_search call is synthesized only when web-search mode is on and
\* an executor is configured, and in the read loop only when the visible
\* content, the text outside thinking tags, is longer than 50 characters.
C26_ForcedOnlyUnderPolicy ==
  \A i \in 1..Len(stack) :
    /\ stack[i].forcedToolCall => WebSearchMode
    /\ ForcedMidStream(stack[i]) =>
         VisibleLen(stack[i].accumulatedContent) > FORCE_THRESHOLD

\* the chain is over after its top-level stream alone, with a final update
\* whose visible content is not empty and no tool call
EndedOnFirstStream ==
  /\ stack = <<>> /\ outcome = "resolved" /\ rounds = 1
  /\ emitted # <<>> /\ emitted[Len(emitted)].isDone
  /\ Trim(emitted[Len(emitted)].message.content) # <<>>
  /\ emitted[Len(emitted)].message.toolCalls = <<>>

\* C27: in web-search mode with an executor and a non-empty user message, a
\* top-level stream that completes with non-empty visible content and no
\* tool call does not end the chain directly, whether it ends with a done
\* record or at end-of-stream: a web_search call is executed first.
C27_CompletionForcesSearch ==
  (WebSearchMode /\ EndedOnFirstStream) => execCount > 0

\* C28: when two chains overlap on one ChatService, completion of one does
\* not disable cancellation of the other: a chain that was awaiting a stream
\* read when cancelRequest was called does not end otherwise than cancelled.
C28_CancelReachesOtherChain ==
  (other.asked /\ other.outcome # "pending") => other.cancelWhere # "none"

RECURSIVE ReadByLine(_)
\* what the loop parses when every read delivers one line with its newline,
\* or the last line without one
ReadByLine(rd) ==
  LET at == {i \in 1..Len(rd.rest) : rd.rest[i] = "nl"}
      n == IF at = {} THEN Len(rd.rest) ELSE CHOOSE i \in at : \A j \in at : i <= j
  IN IF rd.rest = <<>> \/ rd.stopped THEN OnDone(rd).parsed
     ELSE ReadByLine(OnChunk(rd, n))

\* C29: the sequence of records parsed from a byte stream does not depend on
\* how the stream is split into read chunks: whatever the chunks were, at the
\* end the records parsed are those parsed when each read delivers one line.
C29_ChunkingDoesNotMatter ==
  (reader.done /\ reader.source # <<>>) =>
    reader.parsed = ReadByLine(NewReader(reader.source, Reading(reader.f.messages)))

\* the span at position i of the text given to removeToolCalls is gone from
\* what it returned (the texts hold at most one inline call)
SpanRemoved(i) == \A k \in 1..Len(returned.cleanText) : returned.cleanText[k] # subject[i]

\* C30: removeToolCalls removes exactly the spans parseToolCalls detects: a
\* span is gone from the visible text if and only if parseToolCalls gives a
\* Tool Call for it.
C30_RemovesExactlyTheParsedSpans ==
  returned.fn = "removeToolCalls" =>
    \A i \in 1..Len(subject) :
      IsInlineCall(subject[i]) =>
        (SpanRemoved(i) <=> ParseToolCalls(<<subject[i]>>) # <<>>)

\* the positions of the text that lie in no span removeToolCalls detects
OutsideSpans(content) ==
  {i \in 1..Len(content) :
     \A k \in 1..Len(ToolCallMatches(content)) :
        \/ Offset(content, i + 1) <= ToolCallMatches(content)[k].start
        \/ ToolCallMatches(content)[k].end <= Offset(content, i)}

RECURSIVE IsSubsequence(_, _)
\* the tokens of s occur in t, in the order of s
IsSubsequence(s, t) ==
  IF s = <<>> THEN TRUE
  ELSE IF t = <<>> THEN FALSE
  ELSE IF Head(s) = Head(t) THEN IsSubsequence(Tail(s), Tail(t))
  ELSE IsSubsequence(s, Tail(t))

\* C31: removeToolCalls deletes nothing but detected spans and whitespace:
\* the non-whitespace text outside every detected span is in the result, in
\* its order, also when an inline call is nested inside a <tool_call> tag.
C31_OnlySpansAndWhitespaceRemoved ==
  returned.fn = "removeToolCalls" =>
    IsSubsequence(Keep(subject, {i \in OutsideSpans(subject) : ~IsSpace(subject[i])}),
                  returned.cleanText)

\* the text holds one call, written in the tagged form, whose body is also
\* an inline call that parseToolCalls accepts
OneTaggedCall(content) ==
  /\ Cardinality({i \in 1..Len(content) : IsInlineCall(content[i])}) = 1
  /\ Len(TaggedFrom(content, 1)) = 1
  /\ TaggedValid(TaggedFrom(content, 1)[1])
  /\ ParseFrom(TaggedFrom(content, 1)[1].body, 1) # <<>>

\* C37: one call written in the tagged form whose body also has the inline
\* shape yields exactly one Tool Call from parseToolCalls.
C37_TaggedCallParsedOnce ==
  (returned.fn = "parseToolCalls" /\ OneTaggedCall(subject)) =>
    Len(returned.toolCalls) = 1

\* every call parseToolCalls detects, with the character at which its match
\* begins: an inline match at its brace, a tagged match at its open tag
Detected(content) ==
  {[start |-> Offset(content, i),
    call |-> [name |-> MarkerName(content[i]), arguments |-> MarkerArgs(content[i])]] :
     i \in {h \in 1..Len(content) : IsMarker(content[h])}}
  \cup
  {[start |-> Offset(content, m.open),
    call |-> [name |-> MarkerName(m.body[1]), arguments |-> MarkerArgs(m.body[1])]] :
     m \in {TaggedFrom(content, 1)[k] :
              k \in {h \in 1..Len(TaggedFrom(content, 1)) :
                       TaggedValid(TaggedFrom(content, 1)[h])}}}

\* the detected calls from the first to begin to the last
InOrderOfAppearance(content) ==
  [k \in 1..Cardinality(Detected(content)) |->
     (CHOOSE d \in Detected(content) :
        Cardinality({e \in Detected(content) : e.start < d.start}) = k - 1).call]

\* C34: parseToolCalls returns the Tool Calls in the order in which they
\* appear in the text, also when inline and tagged calls are interleaved.
C34_CallsInOrderOfAppearance ==
  returned.fn = "parseToolCalls" => returned.toolCalls = InOrderOfAppearance(subject)

\* C32: the content of an update delivered to the callback never holds a
\* span that parseToolCalls would detect as a Tool Call.
C32_NoMarkerInDeliveredContent ==
  \A k \in 1..Len(emitted) : ParseToolCalls(emitted[k].message.content) = <<>>

\* the first <think> of the text that no </think> follows, or 0
UnclosedOpen(text) ==
  LET open == {i \in 1..Len(text) :
                 text[i] = "<t>" /\ \A j \in (i + 1)..Len(text) : text[j] # "</t>"}
  IN IF open = {} THEN 0 ELSE CHOOSE i \in open : \A j \in open : i <= j

\* a record with content has been processed, the round reads on, and this
\* is the update delivered for the record
RecordUpdate ==
  /\ stack # <<>> /\ Top(stack).pc = "awaitRead"
  /\ history.lastRead # <<>> /\ history.lastRead[1].ok
  /\ history.lastRead[1].content # <<>>
  /\ emitted # <<>>

\* C33: while the accumulated text holds a thinking tag that is open and not
\* yet closed, the update for the record has isThinking true, the text after
\* the open tag is reported as thinking and none of it is in the visible
\* content; when every opened tag is closed the tag no longer marks the turn
\* as thinking.
C33_OpenTagMeansThinking ==
  RecordUpdate =>
    LET acc == Top(stack).accumulatedContent
        open == UnclosedOpen(acc)
        u == emitted[1].message
    IN /\ open # 0 =>
            /\ u.isThinking
            /\ EndsWith(u.thinking, SubSeq(acc, open + 1, Len(acc)))
            /\ IsSubsequence(u.content, SubSeq(acc, 1, open - 1))
       /\ (CheckThinkingStart(acc) /\ open = 0 /\ u.toolCalls = <<>>) => ~u.isThinking

\* C35: every update delivered with isDone true has isStreaming false and
\* does not have isThinking true, on every terminal path.
C35_DoneUpdateIsSettled ==
  \A k \in 1..Len(emitted) :
    emitted[k].isDone =>
      ~emitted[k].message.isStreaming /\ ~emitted[k].message.isThinking

\* C36: every update delivered during a chain, in the top-level round and
\* in every continuation round, carries the same assistant message id: the
\* id the top-level round made.
C36_OneAssistantIdPerChain ==
  \A k \in 1..Len(emitted) : emitted[k].message.id = AssistantMessageId(0, 1)

C36_Witness ==
  /\ Len(stack) >= 2 /\ Top(stack).continuation
  /\ emitted # <<>> /\ emitted[1].message.id = AssistantMessageId(0, 1)

\* the tool-result turns of a history
ToolTurns(messages) == Keep(messages, {i \in 1..Len(messages) : messages[i].role = "tool"})

\* C38: the history passed to a continuation round holds tool-result turns
\* only for the tool calls of the round just executed, one per result of
\* that round; the tool-result turns of earlier rounds are filtered out and
\* every other turn the round had, the assistant turns of the earlier rounds
\* with their toolCalls among them, is kept.
C38_OnlyLastRoundToolTurns ==
  \A i \in 2..Len(stack) :
    stack[i].continuation =>
      /\ ToolTurns(stack[i].messages) =
           [k \in 1..Len(stack[i - 1].toolResults) |-> ToolMessage(stack[i - 1].toolResults[k])]
      /\ \A k \in 1..Len(stack[i - 1].toolResults) :
           \E c \in 1..Len(stack[i - 1].assistantMessage.toolCalls) :
              stack[i - 1].assistantMessage.toolCalls[c].id =
                stack[i - 1].toolResults[k].toolCallId
      /\ StartsWith(stack[i].messages,
                    Keep(stack[i - 1].messages,
                         {k \in 1..Len(stack[i - 1].messages) :
                            stack[i - 1].messages[k].role # "tool"}))

C38_Witness ==
  /\ Len(stack) >= 3 /\ stack[3].continuation
  /\ ToolTurns(stack[2].messages) # <<>>
  /\ ToolTurns(stack[3].messages) # <<>>
  /\ \E k \in 1..Len(stack[3].messages) :
       /\ stack[3].messages[k].role = "assistant"
       /\ stack[3].messages[k].toolCalls # <<>>
       /\ stack[3].messages[k].toolResults = stack[1].toolResults

\* the accumulated text before the k-th fragment was reconciled
AccumulatedBefore(k) == IF k = 1 THEN <<>> ELSE fed[k - 1].accumulated

\* C39: the length of the accumulated content never decreases: after every
\* reconcile step the new accumulated text is at least as long as the
\* accumulated text before it.
C39_AccumulatedNeverShrinks ==
  \A k \in 1..Len(fed) : CharLen(fed[k].accumulated) >= CharLen(AccumulatedBefore(k))

\* a fragment shorter than the accumulated text has been reconciled: once it
\* was appended, once it overlapped the end and the text was kept
C39_Witness ==
  /\ \E k \in 2..Len(fed) :
       /\ CharLen(fed[k].fragment) < CharLen(AccumulatedBefore(k))
       /\ fed[k].accumulated = AccumulatedBefore(k) \o fed[k].fragment
  /\ \E k \in 2..Len(fed) :
       /\ CharLen(fed[k].fragment) < CharLen(AccumulatedBefore(k))
       /\ fed[k].accumulated = AccumulatedBefore(k)

\* C40: a web_search call is synthesized at most once per chain: only the
\* top-level invocation ever has forced one, no continuation has, and every
\* synthesized call an update carries is the one of the top-level round.
C40_ForcedOnlyAtTopLevel ==
  /\ \A i \in 1..Len(stack) : stack[i].forcedToolCall => (i = 1 /\ ~stack[i].continuation)
  /\ \A k \in 1..Len(emitted) : \A c \in 1..Len(emitted[k].message.toolCalls) :
       emitted[k].message.toolCalls[c].id % 100 = 0 =>
         emitted[k].message.toolCalls[c].id = CallId(1, 0)

\* the top-level round forced a search, and a continuation under the same
\* policy has accumulated more than 50 characters and forced none
C40_Witness ==
  /\ config.webSearchEnabled /\ config.toolExecutor
  /\ Len(stack) >= 2 /\ stack[1].forcedToolCall
  /\ Top(stack).continuation /\ ~Top(stack).forcedToolCall
  /\ CharLen(Top(stack).accumulatedContent) > FORCE_THRESHOLD
====
